---- MODULE Spec2Model ----
(***************************************************************************)
(* A Kademlia-style DHT node: routing table (peers.rs, peer_manager.rs),   *)
(* identifier arithmetic (utilities.rs), the dispatcher / discovery loop / *)
(* response wait of messages.rs, and the Node of node.rs with its          *)
(* transaction map.                                                        *)
(***************************************************************************)
EXTENDS Integers, Sequences, FiniteSets, TLC

VARIABLES
    local_node_id,  \* PeerManager.local_node_id (peers.rs:16)
    buckets,        \* PeerManager.buckets (peers.rs:15), indexed 0..ID_BITS-1
    now,            \* the wall clock, in seconds (SystemTime::now())
    is_running,     \* the AtomicBool every polling loop reads (main.rs:55)
    wire,           \* datagrams on their way to this node
    receive_rx,     \* datagrams received and not yet dispatched (main.rs:45)
    send_tx,        \* packets queued for the send thread (main.rs:50)
    response_queue, \* responses waiting for their waiter (main.rs:75)
    dispatcher,     \* where the thread of process_incoming_requests is
    waiters,        \* the threads that send a request and wait for its response
    transaction_ids,\* Node.transaction_ids: transaction id -> address (node.rs:13)
    registered_at,  \* when each transaction id was drawn, in the order drawn
    receive_thread, \* where the receive thread of Server::start is
    returned,       \* what the last direct call of add_peer or nearby_peers returned
    value_store,    \* ValueStore.values: key -> bytes (values.rs:4)
    discovery,      \* where the thread of find_nearby_peers is (main.rs:237)
    send_thread,    \* where the send thread of Server::start is (server.rs:161)
    owner,          \* the thread that holds each Mutex, if one does
    step_of         \* where each thread of the Node is in the function it runs

tableVars == <<local_node_id, buckets>>
rpcVars == <<is_running, wire, receive_rx, send_tx, response_queue, dispatcher, waiters>>
nodeVars == <<transaction_ids, registered_at, receive_thread>>
lockVars == <<owner, step_of>>
callVars == <<returned, value_store, discovery, send_thread, lockVars>>

\* the mutexes of the program and the threads that lock them
Mutexes ==
    {"peer_manager", "response_queue", "transaction_ids", "server",
     "receive_callbacks", "node_logger", "server_logger"}
NoThread == "none"
NodeThreads == {"receive", "finder", "pinger", "registrar"}

\* a thread that runs none of the functions followed lock by lock
Idle == [ops |-> <<>>, next |-> 1]

(***************************************************************************)
(* Program constants.                                                      *)
(***************************************************************************)
BUCKET_SIZE == 20
ID_BITS == 160
FIND_PEER_COUNT == 20
ID_BYTES == 20
TIMEOUT_SECS == 5
BUFFER_SIZE == 1024     \* the receive buffer of the transport (server.rs:116)

(***************************************************************************)
(* Bounds of the model.                                                    *)
(***************************************************************************)
MaxNow == 1          \* times the clock jumps past a response timeout
FreeSlots == 1       \* free slots left in the bucket of a table loaded nearly full
MaxRx == 1           \* unrequested datagrams on the wire or in receive_rx
MaxTx == 2           \* transaction ids the node draws in one run
MaxSend == 1         \* packets waiting in send_tx
MaxQueued == 2       \* packets of numbered senders waiting in one queue
SavedPeers == 1      \* peers in the table the discovery thread starts from
LoopTurns == 1       \* peers find_nearby_nodes visits, nodes of a FIND_NODE response
MaxWaves == 1        \* FIND_NODE requests followed when the table has a full bucket

(***************************************************************************)
(* Option<T>, Result<T, E>.                                                *)
(***************************************************************************)
None == <<>>
Some(x) == <<x>>

(***************************************************************************)
(* Identifiers are strings: sequences of one-character strings.            *)
(***************************************************************************)
HexLower == <<"0", "1", "2", "3", "4", "5", "6", "7", "8", "9",
              "a", "b", "c", "d", "e", "f">>
HexUpper == <<"0", "1", "2", "3", "4", "5", "6", "7", "8", "9",
              "A", "B", "C", "D", "E", "F">>

\* char::to_digit(16): the value of a hex digit of either case, -1 otherwise
HexDigits ==
    [c \in {HexLower[k] : k \in 1..16} \cup {HexUpper[k] : k \in 1..16} |->
        IF \E k \in 1..16 : HexLower[k] = c
        THEN (CHOOSE k \in 1..16 : HexLower[k] = c) - 1
        ELSE (CHOOSE k \in 1..16 : HexUpper[k] = c) - 1]

DigitValue(c) == IF c \in DOMAIN HexDigits THEN HexDigits[c] ELSE -1

\* u8::from_str_radix(s, 16) on a two-character slice: an optional leading
\* "+" and then hex digits of either case; -1 stands for Err(ParseIntError)
FromStrRadix16(s) ==
    IF s[1] = "+"
    THEN DigitValue(s[2])
    ELSE IF DigitValue(s[1]) < 0 \/ DigitValue(s[2]) < 0
         THEN -1
         ELSE 16 * DigitValue(s[1]) + DigitValue(s[2])

\* sha1_to_bytes: byte i is parsed from sha1[2i .. 2i+2], i = 0..19 in turn;
\* the first slice that fails to parse returns Err, a slice that runs past
\* the end of the string panics; characters after the 40th are never read
SliceValue(sha1, i) ==
    IF Len(sha1) < 2 * i + 2 THEN -2
    ELSE FromStrRadix16(<<sha1[2 * i + 1], sha1[2 * i + 2]>>)

sha1_to_bytes(sha1) ==
    LET values == [i \in 0..(ID_BYTES - 1) |-> SliceValue(sha1, i)]
        bad == {i \in 0..(ID_BYTES - 1) : values[i] < 0} IN
    IF bad = {}
    THEN [kind |-> "ok", bytes |-> [k \in 1..ID_BYTES |-> values[k - 1]]]
    ELSE LET first == CHOOSE i \in bad : \A j \in bad : i <= j IN
         [kind |-> IF values[first] = -2 THEN "panic" ELSE "err", bytes |-> <<>>]

(***************************************************************************)
(* arguments.rs: parse_arguments.  A string is a sequence of pieces: a     *)
(* blank " ", an equals sign "=", or a run of other characters.            *)
(***************************************************************************)
\* str::trim: the string without its leading and trailing blanks
Trim(text) ==
    LET filled == {i \in DOMAIN text : text[i] # " "} IN
    IF filled = {} THEN <<>>
    ELSE SubSeq(text, CHOOSE i \in filled : \A j \in filled : i <= j,
                      CHOOSE i \in filled : \A j \in filled : j <= i)

\* str::split('='): the parts between the equals signs, empty parts included
SplitAt(text, cuts) ==
    [k \in 1..(Cardinality(cuts) - 1) |->
        SubSeq(text,
               (CHOOSE c \in cuts : Cardinality({d \in cuts : d < c}) = k - 1) + 1,
               (CHOOSE c \in cuts : Cardinality({d \in cuts : d < c}) = k) - 1)]

Split(text) ==
    SplitAt(text, {0, Len(text) + 1} \cup {i \in DOMAIN text : text[i] = "="})

\* arguments.rs:11-22: the binary name is skipped, every argument is trimmed
\* and split at its equals signs
Expanded(args) ==
    LET parts[k \in 1..Len(args)] ==
            IF k = 1 THEN <<>> ELSE parts[k - 1] \o Split(Trim(args[k]))
    IN parts[Len(args)]

\* str::parse::<u16>: decimal digits alone, and a value a u16 can hold
Numerals == ("1234" :> 1234) @@ ("16600" :> 16600) @@ ("70000" :> 70000)
ParseU16(text) ==
    IF Len(text) = 1 /\ text[1] \in DOMAIN Numerals /\ Numerals[text[1]] < 2 ^ 16
    THEN Numerals[text[1]]
    ELSE -1

\* arguments.rs:24-28
DefaultArguments ==
    [bind_address |-> <<"0.0.0.0">>, peer_file |-> <<"peers.bin">>, port |-> 16600,
     state_file |-> <<"state.bin">>, values_file |-> <<"values.bin">>]

OptionFields ==
    (<<"-b">> :> "bind_address") @@ (<<"--bind-address">> :> "bind_address")
    @@ (<<"-p">> :> "port") @@ (<<"--port">> :> "port")
    @@ (<<"--state-file">> :> "state_file") @@ (<<"--peer-file">> :> "peer_file")
    @@ (<<"--values-file">> :> "values_file")

\* one pass of the loop of arguments.rs:32-109 over the expanded arguments
ParseOption(args, at) ==
    LET option == Trim(args[at.current_index + 1]) IN
    IF option \in {<<"-h">>, <<"--help">>}
    THEN [at EXCEPT !.kind = "exit"]
    ELSE IF option \notin DOMAIN OptionFields
    THEN [at EXCEPT !.kind = "err",
                    !.err = <<"Invalid argument provided", args[at.current_index + 1]>>]
    ELSE IF at.current_index + 1 >= Len(args)
    THEN [at EXCEPT !.kind = "err",
                    !.err = <<"Nothing provided for", OptionFields[option]>>]
    ELSE IF OptionFields[option] # "port"
    THEN [at EXCEPT !.current_index = @ + 2,
                    !.arguments[OptionFields[option]] = args[at.current_index + 2]]
    ELSE IF ParseU16(args[at.current_index + 2]) < 0
    THEN [at EXCEPT !.kind = "err",
                    !.err = <<"Invalid port number provided", args[at.current_index + 2]>>]
    ELSE [at EXCEPT !.current_index = @ + 2,
                    !.arguments.port = ParseU16(args[at.current_index + 2])]

ParseExpanded(args) ==
    LET pass[k \in 0..Len(args)] ==
            IF k = 0
            THEN [kind |-> "ok", err |-> <<>>, current_index |-> 0,
                  arguments |-> DefaultArguments]
            ELSE IF pass[k - 1].kind # "ok" \/ pass[k - 1].current_index >= Len(args)
            THEN pass[k - 1]
            ELSE ParseOption(args, pass[k - 1])
    IN [kind |-> pass[Len(args)].kind, err |-> pass[Len(args)].err,
        arguments |-> IF pass[Len(args)].kind = "ok"
                      THEN pass[Len(args)].arguments ELSE <<>>]

parse_arguments(args) == ParseExpanded(Expanded(args))

(***************************************************************************)
(* Bit arithmetic on u8 and u32.                                           *)
(***************************************************************************)
Bit(x, k) == (x \div (2 ^ k)) % 2
XorBit(a, b, k) == (Bit(a, k) + Bit(b, k)) % 2

\* a ^ b on u8
XorU8(a, b) ==
    XorBit(a, b, 0) + 2 * XorBit(a, b, 1) + 4 * XorBit(a, b, 2) + 8 * XorBit(a, b, 3)
    + 16 * XorBit(a, b, 4) + 32 * XorBit(a, b, 5) + 64 * XorBit(a, b, 6)
    + 128 * XorBit(a, b, 7)

\* the number of bits of x, for 0 <= x < 2^31
BitLength(x) ==
    IF x = 0 THEN 0
    ELSE CHOOSE n \in 1..31 : 2 ^ (n - 1) <= x /\ (n = 31 \/ x < 2 ^ n)

LeadingZerosU8(x) == 8 - BitLength(x)
LeadingZerosTable == [x \in 0..255 |-> 32 - BitLength(x)] @@ <<>>
LeadingZerosU32(x) == IF x \in 0..255 THEN LeadingZerosTable[x] ELSE 32 - BitLength(x)

(***************************************************************************)
(* utilities.rs: distance_to_node and calculate_xor_distance.              *)
(***************************************************************************)
\* a variant that reads the first differing byte of node_id_a alone, used to
\* validate the properties
DistanceFromFirst(node_id_a, node_id_b) ==
    LET differing == {i \in 0..(ID_BYTES - 1) :
                        XorU8(node_id_a[i + 1], node_id_b[i + 1]) # 0} IN
    IF differing = {} THEN 0
    ELSE LET i == CHOOSE j \in differing : \A k \in differing : j <= k IN
         8 * (19 - i) + LeadingZerosU8(node_id_a[i + 1])

\* the first index i (0-based) with a[i] ^ b[i] # 0 decides; 0 when none
distance_to_node(node_id_a, node_id_b) ==
    LET differing == {i \in 0..(ID_BYTES - 1) :
                        XorU8(node_id_a[i + 1], node_id_b[i + 1]) # 0} IN
    IF differing = {} THEN 0
    ELSE LET i == CHOOSE j \in differing : \A k \in differing : j <= k
             xor == XorU8(node_id_a[i + 1], node_id_b[i + 1]) IN
         8 * (19 - i) + LeadingZerosU8(xor)

xor_distance(node_id, target_id) ==
    LET a == sha1_to_bytes(node_id) IN
    IF a.kind # "ok" THEN [kind |-> a.kind, value |-> 0]
    ELSE LET b == sha1_to_bytes(target_id) IN
         IF b.kind # "ok" THEN [kind |-> b.kind, value |-> 0]
         ELSE [kind |-> "ok", value |-> distance_to_node(a.bytes, b.bytes)]

(***************************************************************************)
(* Identifier pool.                                                        *)
(***************************************************************************)
Zeros(n) == [k \in 1..n |-> "0"]
IdOf(head, tail) == head \o Zeros(2 * ID_BYTES - Len(head) - Len(tail)) \o tail

IdZero == IdOf(<<>>, <<>>)                 \* 0000...00
Id80   == IdOf(<<"8", "0">>, <<>>)         \* 8000...00
Id40   == IdOf(<<"4", "0">>, <<>>)         \* 4000...00
Id01   == IdOf(<<>>, <<"0", "1">>)         \* 0000...01
IdFF   == IdOf(<<"f", "f">>, <<"f", "f">>) \* ff00...ff
Id0100 == IdOf(<<>>, <<"0", "1", "0", "0">>) \* 0000...0100

\* the ids of the peers a nearly full table was saved with: 01.., 02.., ...
FillerId(k) == IdOf(<<HexLower[(k \div 16) + 1], HexLower[(k % 16) + 1]>>, <<"a">>)

LocalIds == {IdZero, IdFF}
PeerIds == {Id80, Id01, IdZero}
SenderIds == {Id80, Id40, IdZero}
NearbyPeerIds == {Id40, Id01, Id0100}
NearbyTargets == {Id01, Id80}

\* every id the model's inputs and tables hold
Fillers == {FillerId(k) : k \in 1..BUCKET_SIZE}
KnownIds == LocalIds \cup PeerIds \cup SenderIds \cup NearbyPeerIds \cup Fillers

\* calculate_xor_distance, tabulated once for the ids of the model
DistanceTable ==
    [pair \in LocalIds \X KnownIds |-> xor_distance(pair[1], pair[2])] @@ <<>>

calculate_xor_distance(node_id, target_id) ==
    IF node_id \in LocalIds /\ target_id \in KnownIds
    THEN DistanceTable[<<node_id, target_id>>]
    ELSE xor_distance(node_id, target_id)

\* peers.rs:48-50: the bucket add_peer uses for a peer id
BucketIndexOf(local, peer_node_id) ==
    LeadingZerosU32(calculate_xor_distance(local, peer_node_id).value)

\* SocketAddr: an IP address and a port
SocketAddr(ip, port) == [ip |-> ip, port |-> port]
Addrs == {SocketAddr("10.0.0.1", 16600)}
SourceAddrs == {SocketAddr("10.0.0.1", 16600), SocketAddr("10.0.0.2", 16600)}
PingTargets == {SocketAddr("10.0.0.1", 16600)}

(***************************************************************************)
(* peers.rs: PeerManager::add_peer.                                        *)
(***************************************************************************)
\* variants of the two checks of add_peer, used to validate the properties
\* stated about it
PositionOfNothing(bucket, peer_node_id) == None
BucketIsFullAbove(bucket) == Len(bucket) > BUCKET_SIZE

\* the position of the peer in its bucket (peers.rs:59-64)
PositionOf(bucket, peer_node_id) ==
    IF \E k \in 1..Len(bucket) : bucket[k].node_id = peer_node_id
    THEN Some(CHOOSE k \in 1..Len(bucket) :
                /\ bucket[k].node_id = peer_node_id
                /\ \A j \in 1..(k - 1) : bucket[j].node_id # peer_node_id)
    ELSE None

\* the bucket is refused when it already holds BUCKET_SIZE peers (peers.rs:52)
BucketIsFull(bucket) == Len(bucket) >= BUCKET_SIZE

\* a variant that also stamps first_seen, used to validate the properties
UpdatedPeerStamped(peer, active, t) ==
    [peer EXCEPT !.active = active,
                 !.first_seen = t,
                 !.last_seen = IF active THEN Some(t) ELSE @]

\* the entry found in the bucket is updated in place (peers.rs:66-75)
UpdatedPeer(peer, active, t) ==
    [peer EXCEPT !.active = active,
                 !.last_seen = IF active THEN Some(t) ELSE @]

\* a peer that is not in the bucket is built and pushed back (peers.rs:76-97)
NewPeer(socket_addr, peer_node_id, active, t) ==
    [active |-> active,
     address |-> socket_addr.ip,
     first_seen |-> t,
     last_seen |-> IF active THEN Some(t) ELSE None,
     node_id |-> peer_node_id,
     port |-> socket_addr.port]

\* add_peer as a function of the table: the Result and the table afterwards.
\* The steps of the function, last first:
\* the peer is stored at its position, or pushed back (peers.rs:65-100)
add_peer_store(bk, bucket_index, index, peer) ==
    [kind |-> "ok", err |-> "", peer |-> Some(peer),
     buckets |-> [bk EXCEPT ![bucket_index] =
                    IF index = 0 THEN Append(@, peer) ELSE [@ EXCEPT ![index] = peer]]]

\* the peer is looked up in its bucket (peers.rs:61-65)
add_peer_lookup(bk, bucket_index, peer_index, socket_addr, peer_node_id, active, t) ==
    IF peer_index # None
    THEN add_peer_store(bk, bucket_index, peer_index[1],
                        UpdatedPeer(bk[bucket_index][peer_index[1]], active, t))
    ELSE add_peer_store(bk, bucket_index, 0,
                        NewPeer(socket_addr, peer_node_id, active, t))

\* a full bucket refuses the peer (peers.rs:52-54)
add_peer_bucket(bk, bucket_index, socket_addr, peer_node_id, active, t) ==
    IF BucketIsFull(bk[bucket_index])
    THEN [kind |-> "err", err |-> "Bucket is full", peer |-> None, buckets |-> bk]
    ELSE add_peer_lookup(bk, bucket_index, PositionOf(bk[bucket_index], peer_node_id),
                         socket_addr, peer_node_id, active, t)

\* the distance gives the bucket (peers.rs:48-50)
add_peer_distance(bk, distance, socket_addr, peer_node_id, active, t) ==
    IF distance.kind # "ok"
    THEN [kind |-> distance.kind, err |-> "Failed to calculate distance",
          peer |-> None, buckets |-> bk]
    ELSE add_peer_bucket(bk, LeadingZerosU32(distance.value),
                         socket_addr, peer_node_id, active, t)

add_peer(bk, local, socket_addr, peer_node_id, active, t) ==
    add_peer_distance(bk, calculate_xor_distance(local, peer_node_id),
                      socket_addr, peer_node_id, active, t)

(***************************************************************************)
(* peers.rs: PeerManager::nearby_peers.                                    *)
(***************************************************************************)
Min(a, b) == IF a <= b THEN a ELSE b

\* Option<u64> in its derived order: None before every Some
LastSeenKey(peer) == IF peer.last_seen = None THEN -1 ELSE peer.last_seen[1]

\* where sort_by(|a, b| b.last_seen.cmp(&a.last_seen)), a stable sort, puts
\* the k-th peer (peers.rs:235)
SortedPosition(peers, k) ==
    1 + Cardinality({j \in 1..Len(peers) :
            \/ LastSeenKey(peers[j]) > LastSeenKey(peers[k])
            \/ LastSeenKey(peers[j]) = LastSeenKey(peers[k]) /\ j < k})

SortByPositions(peers, positions) ==
    [r \in 1..Len(peers) |-> peers[CHOOSE k \in 1..Len(peers) : positions[k] = r]]

SortByLastSeen(peers) ==
    SortByPositions(peers, [k \in 1..Len(peers) |-> SortedPosition(peers, k)] @@ <<>>)

\* the bucket find_peers_at_offset reads (peers.rs:214-221)
OffsetBucketIndex(distance, distance_offset) ==
    LeadingZerosU32(Min(distance + distance_offset, ID_BITS))

find_peers_at_offset(bk, distance, distance_offset, include_unseen) ==
    SortByLastSeen(
        SelectSeq(bk[OffsetBucketIndex(distance, distance_offset)],
                  LAMBDA peer : include_unseen \/ peer.last_seen # None))

\* the n-th call of find_peers_at_offset in find_nearby_peers: the offsets
\* target_bucket_index + offset and, after it, target_bucket_index - offset
\* (peers.rs:155-203); -1 where the second call is skipped
ProbeOffset(target_bucket_index, n) ==
    IF n % 2 = 0
    THEN target_bucket_index + (n \div 2)
    ELSE IF (n \div 2) > 0 /\ (n \div 2) <= target_bucket_index
         THEN target_bucket_index - (n \div 2)
         ELSE -1

ProbeBucket(distance, n) ==
    IF ProbeOffset(LeadingZerosU32(distance), n) < 0
    THEN -1
    ELSE OffsetBucketIndex(distance, ProbeOffset(LeadingZerosU32(distance), n))

\* the calls that read a bucket for the first time: a later call finds only
\* peers that are already in the map
FirstProbesOf(distance) ==
    {n \in 0..(2 * ID_BITS - 1) :
        /\ ProbeBucket(distance, n) >= 0
        /\ \A m \in 0..(n - 1) : ProbeBucket(distance, m) # ProbeBucket(distance, n)}

\* tabulated once for the targets of the model
FindTargets == {Id01}
ProbeDistances ==
    {DistanceTable[<<local, target>>].value :
        local \in LocalIds, target \in FindTargets \cup NearbyTargets \cup LocalIds}
FirstProbesTable == [distance \in ProbeDistances |-> FirstProbesOf(distance)] @@ <<>>

FirstProbes(distance) ==
    IF distance \in ProbeDistances
    THEN FirstProbesTable[distance]
    ELSE FirstProbesOf(distance)

\* what those calls return, by call
ProbeLists(bk, distance, include_unseen) ==
    [n \in FirstProbes(distance) |->
        find_peers_at_offset(bk, distance, ProbeOffset(LeadingZerosU32(distance), n),
                             include_unseen)] @@ <<>>

\* the peers the calls return, <<call, position>>, in the order of the loop
ProbeEntries(lists) ==
    UNION {{n} \X (1..Len(lists[n])) : n \in DOMAIN lists}

Earlier(e, f) == e[1] < f[1] \/ (e[1] = f[1] /\ e[2] < f[2])

\* a variant of the test below that lets the target in, used to validate the
\* properties stated about nearby_peers
InsertedWithTarget(lists, target_node_id, entries) ==
    {e \in entries :
        \A f \in entries :
            Earlier(f, e) => lists[f[1]][f[2]].node_id # lists[e[1]][e[2]].node_id}

\* the entries that are inserted: not the target, not already in the map
Inserted(lists, target_node_id, entries) ==
    {e \in entries :
        /\ lists[e[1]][e[2]].node_id # target_node_id
        /\ \A f \in entries :
              Earlier(f, e) => lists[f[1]][f[2]].node_id # lists[e[1]][e[2]].node_id}

\* the loop returns as soon as the map holds FIND_PEER_COUNT peers
FirstInserted(inserted) ==
    {e \in inserted :
        Cardinality({f \in inserted : Earlier(f, e)}) < FIND_PEER_COUNT}

PeersAt(lists, entries) == {lists[e[1]][e[2]] : e \in entries}

\* the same set, with its elements listed
Listed(set) == {x : x \in set}

find_nearby_peers_in(lists, target_node_id) ==
    UNION {UNION {PeersAt(lists, FirstInserted(inserted)) :
                    inserted \in {Listed(Inserted(lists, target_node_id, entries))}} :
             entries \in {Listed(ProbeEntries(lists))}}

\* find_nearby_peers for a valid target: the peers of the map it returns
find_nearby_peers(bk, distance, target_node_id, include_unseen) ==
    UNION {find_nearby_peers_in(lists, target_node_id) :
             lists \in {ProbeLists(bk, distance, include_unseen)}}

\* the ways to take n peers, or all of them, out of a map iterated in an
\* arbitrary order
Choices(peers, n) ==
    IF Cardinality(peers) <= n
    THEN {peers}
    ELSE {chosen \in SUBSET peers : Cardinality(chosen) = n}

\* the seen peers, filled up with unseen ones (peers.rs:110-125)
nearby_peers_fill(seen, unseen) ==
    IF Cardinality(seen) >= FIND_PEER_COUNT
    THEN {seen}
    ELSE {seen \cup chosen :
            chosen \in Choices({peer \in unseen :
                                  \A other \in seen : other.node_id # peer.node_id},
                               FIND_PEER_COUNT - Cardinality(seen))}

\* nearby_peers: the results it can return; none when the target id is not
\* a valid id (it returns Err)
nearby_peers_within(bk, distance, target_node_id) ==
    IF distance.kind # "ok"
    THEN {}
    ELSE UNION {nearby_peers_fill(seen, unseen) :
                  seen \in {find_nearby_peers(bk, distance.value, target_node_id, FALSE)},
                  unseen \in {find_nearby_peers(bk, distance.value, target_node_id, TRUE)}}

nearby_peers(bk, local, target_node_id) ==
    nearby_peers_within(bk, calculate_xor_distance(local, target_node_id), target_node_id)

(***************************************************************************)
(* PeerManager::new: an empty table, or the table a previous session       *)
(* saved.  `active` is not serialized, so every loaded peer is inactive.   *)
(***************************************************************************)
EmptyBuckets == [i \in 0..(ID_BITS - 1) |-> <<>>]

\* the peers of the saved table, in the order they were added, each in the
\* bucket add_peer put it in
SavedPeer(n) ==
    [NewPeer(SocketAddr("10.0.1.1", 16600 + n), FillerId(n), TRUE, 0)
        EXCEPT !.active = FALSE]

SavedBuckets(local, n) ==
    [i \in 0..(ID_BITS - 1) |->
        SelectSeq([k \in 1..n |-> SavedPeer(k)],
                  LAMBDA peer : BucketIndexOf(local, peer.node_id) = i)]

LoadedTables(local) == {EmptyBuckets, SavedBuckets(local, BUCKET_SIZE - FreeSlots)}

TableInit ==
    /\ local_node_id \in LocalIds
    /\ buckets \in LoadedTables(local_node_id)

(***************************************************************************)
(* Where the routing table holds a node id.                                *)
(***************************************************************************)
UsedBuckets == {i \in DOMAIN buckets : buckets[i] # <<>>}

\* where a node id is stored: the <<bucket, position>> pairs
Places(node_id) ==
    {<<i, k>> \in UNION {{i} \X (1..Len(buckets[i])) : i \in UsedBuckets} :
        buckets[i][k].node_id = node_id}

(***************************************************************************)
(* The clock: more than a response timeout passes.                         *)
(***************************************************************************)
LongTick ==
    /\ now < MaxNow * (TIMEOUT_SECS + 1)
    /\ now' = now + TIMEOUT_SECS + 1
    /\ UNCHANGED <<tableVars, rpcVars, nodeVars, callVars>>

(***************************************************************************)
(* A direct call of add_peer.                                              *)
(***************************************************************************)
AddPeerReturns(r, peer_node_id) ==
    /\ r.kind # "panic"
    /\ buckets' = r.buckets
    /\ returned' = Some([kind |-> r.kind, err |-> r.err, node_id |-> peer_node_id])

AddPeer(socket_addr, peer_node_id, active) ==
    /\ AddPeerReturns(add_peer(buckets, local_node_id, socket_addr, peer_node_id,
                               active, now),
                      peer_node_id)
    /\ UNCHANGED <<nodeVars, value_store, discovery, send_thread, local_node_id, now, rpcVars, lockVars>>

(***************************************************************************)
(* A direct call of nearby_peers.  The Vec it returns is collected from a  *)
(* HashMap, whose iteration order is arbitrary: `first` is the peer at     *)
(* index 0 of the Vec, any peer of the map.                                *)
(***************************************************************************)
FirstOf(peers) == IF peers = {} THEN {None} ELSE {Some(peer) : peer \in peers}

NearbyPeers(target_node_id) ==
    /\ \E peers \in nearby_peers(buckets, local_node_id, target_node_id) :
          \E first \in FirstOf(peers) :
             returned' = Some([kind |-> "ok", err |-> "", target |-> target_node_id,
                               peers |-> peers, first |-> first])
    /\ UNCHANGED <<tableVars, now, rpcVars, nodeVars, value_store, discovery, send_thread, lockVars>>

(***************************************************************************)
(* structures.rs: Packet, Message, Request, Response.                      *)
(***************************************************************************)
Request(kind, arg) == [class |-> "Request", kind |-> kind, arg |-> arg]
Response(kind, arg) == [class |-> "Response", kind |-> kind, arg |-> arg]
Ping == Request("Ping", <<>>)
Pong == Response("Pong", <<>>)
FindNode(node_id) == Request("FindNode", node_id)
FoundNode(address, node_id) == [address |-> address, node_id |-> node_id]
FindNodeResponse(nodes) == Response("FindNode", nodes)
Store(key, value) == Request("Store", <<key, value>>)

Packet(node_id, transaction_id, message) ==
    [node_id |-> node_id, transaction_id |-> transaction_id, message |-> message]

\* a datagram that bincode::deserialize refuses
Garbage == [class |-> "Garbage"]

\* bincode::serialize of the derived Serialize of structures.rs: an enum is
\* its variant index as u32 and then its fields, a String or a Vec its
\* length as u64 and then its elements, a SocketAddr of IPv4 the variant
\* index, four address bytes and the port as u16; ids have 40 characters
IdSize == 8 + 2 * ID_BYTES
SocketAddrSize == 4 + 4 + 2
FoundNodeSize == SocketAddrSize + IdSize

PayloadSize(message) ==
    IF message.kind \in {"Ping", "Pong"} THEN 0
    ELSE IF message.class = "Request" /\ message.kind = "Store"
    THEN IdSize + 8 + Len(message.arg[2])
    ELSE IF message.class = "Request"
    THEN IdSize
    ELSE 8 + Cardinality(message.arg) * FoundNodeSize

EncodedSize(packet) ==
    4 + 4 + PayloadSize(packet.message) + IdSize + IdSize

(***************************************************************************)
(* messages.rs: send_packet.                                               *)
(***************************************************************************)
\* a variant that queues the packet ahead of those already queued, used to
\* validate the properties
SendPacketFirst(queue, packet, socket_addr) ==
    <<[dest |-> socket_addr, packet |-> packet]>> \o queue

send_packet(queue, packet, socket_addr) ==
    Append(queue, [dest |-> socket_addr, packet |-> packet])

\* the address a Peer of peers.rs records: the IP as a string, and the port
PeerAddress(peer) == SocketAddr(peer.address, peer.port)

(***************************************************************************)
(* messages.rs: handle_request.  The packets it queues, given the table.   *)
(***************************************************************************)
\* what the request reads from the routing table: the results nearby_peers
\* can return to a FIND_NODE request
RequestReads(bk, local, packet) ==
    IF packet.message.class = "Request" /\ packet.message.kind = "FindNode"
    THEN nearby_peers(bk, local, packet.message.arg)
    ELSE {{}}

\* send_tx after the request is handled, nearby_peers having returned nodes
handle_request(queue, local, packet, peer, nodes) ==
    IF packet.message.class # "Request" THEN queue
    ELSE IF packet.message.kind = "Ping"
    THEN send_packet(queue, Packet(local, packet.transaction_id, Pong),
                     PeerAddress(peer))
    ELSE IF packet.message.kind = "FindNode"
    THEN send_packet(queue,
                     Packet(local, packet.transaction_id,
                            FindNodeResponse({FoundNode(PeerAddress(node), node.node_id) :
                                                node \in nodes})),
                     PeerAddress(peer))
    ELSE queue

(***************************************************************************)
(* The threads that wait for a response.                                   *)
(***************************************************************************)
Waiters == {"w1", "w2"}

\* the thread of find_nearby_peers waits like them
Finder == "find"
Threads == Waiters \cup {Finder}

\* random_sha1_to_string: a fresh transaction id for each request; the
\* thread of find_nearby_peers draws one for each packet it sends
TransactionId(w) ==
    IF w = "w1" THEN "tx1"
    ELSE IF w = "w2" THEN "tx2"
    ELSE ToString(discovery.drawn)
TransactionIds == {TransactionId(w) : w \in Waiters}

\* the thread of find_nearby_peers before its first statement: the peers and
\* the nodes its two loops have still to visit, the node of the inner loop,
\* the transaction ids drawn, the peers it put in the table, whether one of
\* its waits was aborted, its Result
NotStarted ==
    [pc |-> "start", peers |-> {}, nodes |-> {}, node |-> None, drawn |-> 0,
     added |-> 0, aborted |-> FALSE, result |-> None]

NotWaiting ==
    [pc |-> "idle", dest |-> None, end_time |-> 0, result |-> None, offered |-> FALSE]

(***************************************************************************)
(* messages.rs: process_incoming_requests.                                 *)
(***************************************************************************)
\* the loop condition holds: the thread goes on to drain receive_rx
DispatcherWake ==
    /\ dispatcher = "idle"
    /\ is_running
    /\ dispatcher' = "drain"
    /\ UNCHANGED <<nodeVars, callVars, tableVars, now, is_running, wire, receive_rx, send_tx,
                   response_queue, waiters>>

\* the loop condition fails: the thread ends
DispatcherExit ==
    /\ dispatcher = "idle"
    /\ ~is_running
    /\ dispatcher' = "exited"
    /\ UNCHANGED <<nodeVars, callVars, tableVars, now, is_running, wire, receive_rx, send_tx,
                   response_queue, waiters>>

\* try_iter finds nothing more: the thread sleeps and returns to the loop head
DispatcherSleep ==
    /\ dispatcher = "drain"
    /\ receive_rx = <<>>
    /\ dispatcher' = "idle"
    /\ UNCHANGED <<nodeVars, callVars, tableVars, now, is_running, wire, receive_rx, send_tx,
                   response_queue, waiters>>

\* history: waiter w is in wait_for_response, its deadline has not passed, and
\* the closure is about to push a response that bears w's transaction id
Offers(w) ==
    /\ waiters[w].pc \in {"loop", "poll", "sleep"}
    /\ now <= waiters[w].end_time
    /\ response_queue' # response_queue
    /\ response_queue'[Len(response_queue')].packet.transaction_id = TransactionId(w)

\* the closure run for one datagram of receive_rx, last step first:
\* add_peer has returned r; a response is queued, a request is handled
DispatchPacket(src, packet, r) ==
    /\ r.kind # "panic"
    /\ buckets' = r.buckets
    /\ IF r.kind # "ok"
       THEN UNCHANGED <<response_queue, send_tx>>
       ELSE IF packet.message.class = "Response"
       THEN /\ response_queue' =
                  Append(response_queue, [packet |-> packet, src |-> src])
            /\ UNCHANGED send_tx
       ELSE /\ IF RequestReads(r.buckets, local_node_id, packet) = {}
               THEN UNCHANGED send_tx
               ELSE \E nodes \in RequestReads(r.buckets, local_node_id, packet) :
                       send_tx' = handle_request(send_tx, local_node_id, packet,
                                                 r.peer[1], nodes)
            /\ UNCHANGED response_queue

\* the datagram is deserialized and its sender added to the routing table
DispatchDatagram(src, packet) ==
    IF packet = Garbage
    THEN UNCHANGED <<buckets, response_queue, send_tx>>
    ELSE DispatchPacket(src, packet,
             add_peer(buckets, local_node_id, src, packet.node_id, TRUE, now))

DispatchWithin(limit) ==
    /\ dispatcher = "drain"
    /\ receive_rx # <<>>
    /\ Len(send_tx) < limit
    /\ receive_rx' = Tail(receive_rx)
    /\ DispatchDatagram(Head(receive_rx).src, Head(receive_rx).data)
    /\ waiters' = [w \in Threads |->
                     IF Offers(w) THEN [waiters[w] EXCEPT !.offered = TRUE]
                     ELSE waiters[w]]
    /\ UNCHANGED <<nodeVars, callVars, local_node_id, now, is_running, wire, dispatcher>>

Dispatch == DispatchWithin(MaxSend)

(***************************************************************************)
(* The environment: datagrams arrive, queued packets leave, the operator   *)
(* stops the node.                                                         *)
(***************************************************************************)
\* a remote node sends this node a request of its own
RemoteRequestWithin(src, data, limit) ==
    /\ Cardinality(wire) + Len(receive_rx) < limit
    /\ wire' = wire \cup {[src |-> src, data |-> data]}
    /\ UNCHANGED <<nodeVars, callVars, tableVars, now, is_running, receive_rx, send_tx, response_queue,
                   dispatcher, waiters>>

RemoteRequest(src, data) == RemoteRequestWithin(src, data, MaxRx)

\* the receive thread takes a datagram off the socket and sends it down
\* receive_rx; datagrams arrive in any order
Deliver ==
    \E d \in wire :
        /\ wire' = wire \ {d}
        /\ receive_rx' = Append(receive_rx, d)
        /\ UNCHANGED <<nodeVars, callVars, tableVars, now, is_running, send_tx, response_queue,
                       dispatcher, waiters>>

\* the node that listens at an address, and what it answers to a request
NodeAt(socket_addr) == Id80
FoundLists ==
    {<<>>,
     <<FoundNode(<<"10.0.0.2", ":", 16600>>, Id40)>>,
     <<FoundNode(<<"10.0.0.2">>, Id40)>>}

\* the node lists a remote node of messages.rs answers with: none, a node
\* not heard of, the asking node itself, a peer of the saved table, two nodes
FoundSets ==
    {{},
     {FoundNode(SocketAddr("10.0.0.2", 16600), Id40)},
     {FoundNode(SocketAddr("10.0.0.2", 16600), IdZero)},
     {FoundNode(SocketAddr("10.0.1.1", 16601), FillerId(1))},
     {FoundNode(SocketAddr("10.0.0.2", 16600), Id40),
      FoundNode(SocketAddr("10.0.0.3", 16600), Id01)}}

ReplyWith(packet, found) ==
    IF packet.message.class = "Request" /\ packet.message.kind = "Ping"
    THEN {Pong}
    ELSE IF packet.message.class = "Request" /\ packet.message.kind = "FindNode"
    THEN {FindNodeResponse(nodes) : nodes \in found}
    ELSE {}

ReplyTo(packet) == ReplyWith(packet, FoundLists)

\* the send thread writes the head of send_tx to the socket; the remote node
\* answers a request from one of its addresses, or the datagram or its answer
\* is lost
TransmitReplyingFrom(responder, replies) ==
    /\ send_thread = "running"
    /\ is_running
    /\ send_tx # <<>>
    /\ send_tx' = Tail(send_tx)
    /\ \/ wire' = wire
       \/ \E src \in SourceAddrs, m \in replies :
             wire' = wire \cup
                 {[src |-> src,
                   data |-> Packet(responder, Head(send_tx).packet.transaction_id, m)]}
    /\ UNCHANGED <<nodeVars, callVars, tableVars, now, is_running, receive_rx, response_queue,
                   dispatcher, waiters>>

TransmitReplying(replies) == TransmitReplyingFrom(NodeAt(Head(send_tx).dest), replies)

Transmit == send_tx # <<>> /\ TransmitReplying(ReplyTo(Head(send_tx).packet))

\* the same, the remote node being a node of messages.rs
FinderTransmit ==
    send_tx # <<>> /\ TransmitReplying(ReplyWith(Head(send_tx).packet, FoundSets))

\* Ctrl-C or the exit command (main.rs:70-72, 86-89)
Shutdown ==
    /\ is_running
    /\ is_running' = FALSE
    /\ UNCHANGED <<nodeVars, callVars, tableVars, now, wire, receive_rx, send_tx, response_queue,
                   dispatcher, waiters>>

(***************************************************************************)
(* messages.rs: wait_for_response, and the callers that send a request and *)
(* then wait for its response.                                             *)
(***************************************************************************)
\* Result<Packet, String> of wait_for_response; `src` records where the
\* packet came from, which the code's queue does not keep
Ok(val) == [kind |-> "Ok", val |-> val]
TimedOut == [kind |-> "Err", err |-> "Timed out waiting for response to transaction"]
Aborted == [kind |-> "Err", err |-> "Aborting wait for response to transaction"]

\* the add_peer command (main.rs:96-122): send a PING, then wait_for_response,
\* whose first statement fixes the deadline
StartWait(w, socket_addr) ==
    /\ waiters[w].pc = "idle"
    /\ is_running
    /\ send_tx' = send_packet(send_tx, Packet(local_node_id, TransactionId(w), Ping),
                              socket_addr)
    /\ waiters' = [waiters EXCEPT ![w] =
                      [pc |-> "loop", dest |-> Some(socket_addr),
                       end_time |-> now + TIMEOUT_SECS, result |-> None,
                       offered |-> FALSE]]
    /\ UNCHANGED <<nodeVars, callVars, tableVars, now, is_running, wire, receive_rx, response_queue, dispatcher>>

\* a variant of the loop condition that does not read the flag, used to
\* validate the property stated about it
WaitCheckBlind(w) ==
    /\ waiters[w].pc = "loop"
    /\ waiters' = [waiters EXCEPT ![w].pc = "poll"]
    /\ UNCHANGED <<nodeVars, callVars, tableVars, now, is_running, wire, receive_rx, send_tx,
                   response_queue, dispatcher>>

\* the loop condition: is_running.load()
WaitCheck(w) ==
    /\ waiters[w].pc = "loop"
    /\ waiters' = [waiters EXCEPT ![w] =
                      IF is_running
                      THEN [@ EXCEPT !.pc = "poll"]
                      ELSE [@ EXCEPT !.pc = "done", !.result = Some(Aborted)]]
    /\ UNCHANGED <<nodeVars, callVars, tableVars, now, is_running, wire, receive_rx, send_tx, response_queue,
                   dispatcher>>

\* under the queue's lock: pop the front, keep it if it is the response, push
\* it back otherwise
WaitPollStep(w) ==
    /\ waiters[w].pc = "poll"
    /\ IF response_queue = <<>>
       THEN /\ waiters' = [waiters EXCEPT ![w].pc = "sleep"]
            /\ UNCHANGED response_queue
       ELSE LET val == Head(response_queue) IN
            IF val.packet.transaction_id = TransactionId(w)
            THEN /\ response_queue' = Tail(response_queue)
                 /\ waiters' = [waiters EXCEPT ![w].pc = "done",
                                               ![w].result = Some(Ok(val))]
            ELSE /\ response_queue' = Append(Tail(response_queue), val)
                 /\ waiters' = [waiters EXCEPT ![w].pc = "sleep"]
    /\ UNCHANGED <<nodeVars, returned, value_store, discovery, send_thread, tableVars, now,
                   is_running, wire, receive_rx, send_tx, dispatcher>>

WaitPoll(w) == WaitPollStep(w) /\ UNCHANGED lockVars

\* after the 50 ms sleep: the deadline check
WaitSleep(w) ==
    /\ waiters[w].pc = "sleep"
    /\ waiters' = [waiters EXCEPT ![w] =
                      IF now > waiters[w].end_time
                      THEN [@ EXCEPT !.pc = "done", !.result = Some(TimedOut)]
                      ELSE [@ EXCEPT !.pc = "loop"]]
    /\ UNCHANGED <<nodeVars, callVars, tableVars, now, is_running, wire, receive_rx, send_tx, response_queue,
                   dispatcher>>

(***************************************************************************)
(* messages.rs: find_nearby_peers, the thread main.rs starts to discover   *)
(* peers.                                                                  *)
(***************************************************************************)
\* the thread calls wait_for_response, whose first statement fixes the
\* deadline
Waiting(socket_addr) ==
    [pc |-> "loop", dest |-> Some(socket_addr), end_time |-> now + TIMEOUT_SECS,
     result |-> None, offered |-> FALSE]

Finished(result) == [discovery EXCEPT !.pc = "done", !.result = Some(result)]

\* nearby_peers(local_node_id)?  (messages.rs:136)
DiscoveryStartStep ==
    /\ discovery.pc = "start"
    /\ IF nearby_peers(buckets, local_node_id, local_node_id) = {}
       THEN discovery' = Finished([kind |-> "Err", err |-> "Failed to calculate distance"])
       ELSE \E peers \in nearby_peers(buckets, local_node_id, local_node_id) :
               discovery' = [discovery EXCEPT !.pc = "next", !.peers = peers]
    /\ UNCHANGED <<nodeVars, returned, value_store, send_thread, tableVars, now, rpcVars>>

DiscoveryStart == DiscoveryStartStep /\ UNCHANGED lockVars

\* the outer loop takes the next peer, in the order of the Vec nearby_peers
\* returned, sends it FIND_NODE(local_node_id) and starts to wait
\* (messages.rs:138-153); after the last peer the function returns Ok(())
DiscoveryRequest ==
    /\ discovery.pc = "next"
    /\ IF discovery.peers = {}
       THEN /\ discovery' = Finished([kind |-> "Ok", val |-> <<>>])
            /\ UNCHANGED <<send_tx, waiters>>
       ELSE \E peer \in discovery.peers :
               /\ discovery' = [discovery EXCEPT !.pc = "wait_find",
                                                 !.peers = @ \ {peer},
                                                 !.drawn = @ + 1]
               /\ send_tx' = send_packet(send_tx,
                                         Packet(local_node_id,
                                                ToString(discovery.drawn + 1),
                                                FindNode(local_node_id)),
                                         PeerAddress(peer))
               /\ waiters' = [waiters EXCEPT ![Finder] = Waiting(PeerAddress(peer))]
    /\ UNCHANGED <<nodeVars, returned, value_store, send_thread, tableVars, now, is_running, wire,
                   receive_rx, response_queue, dispatcher, lockVars>>

\* the nodes of a FIND_NODE response; none for an error or another response
\* (messages.rs:149-166)
NodesOf(result) ==
    IF result.kind = "Ok" /\ result.val.packet.message.class = "Response"
                         /\ result.val.packet.message.kind = "FindNode"
    THEN result.val.packet.message.arg
    ELSE {}

\* the wait of the thread returned because the running flag was cleared
WaitAborted == waiters[Finder].result = Some(Aborted)

\* wait_for_response has returned (messages.rs:149-166)
DiscoveryResponse ==
    /\ discovery.pc = "wait_find"
    /\ waiters[Finder].pc = "done"
    /\ discovery' = [discovery EXCEPT !.pc = "nodes",
                                      !.nodes = NodesOf(waiters[Finder].result[1]),
                                      !.aborted = @ \/ WaitAborted]
    /\ waiters' = [waiters EXCEPT ![Finder] = NotWaiting]
    /\ UNCHANGED <<nodeVars, returned, value_store, send_thread, tableVars, now, is_running, wire,
                   receive_rx, send_tx, response_queue, dispatcher, lockVars>>

\* add_peer(&node.address, &node.node_id, false)? has returned r: an error
\* ends the function, otherwise a PING goes to the peer (messages.rs:169-187)
DiscoveryPing(node, r) ==
    /\ r.kind # "panic"
    /\ IF r.kind # "ok"
       THEN /\ discovery' = Finished([kind |-> "Err", err |-> r.err])
            /\ UNCHANGED <<buckets, send_tx, waiters>>
       ELSE /\ buckets' = r.buckets
            /\ discovery' = [discovery EXCEPT
                                !.pc = "wait_ping",
                                !.nodes = @ \ {node},
                                !.node = Some(node),
                                !.drawn = @ + 1,
                                !.added = IF Places(node.node_id) = {} THEN @ + 1 ELSE @]
            /\ send_tx' = send_packet(send_tx,
                                      Packet(local_node_id, ToString(discovery.drawn + 1),
                                             Ping),
                                      PeerAddress(r.peer[1]))
            /\ waiters' = [waiters EXCEPT ![Finder] = Waiting(PeerAddress(r.peer[1]))]

\* the inner loop takes the next node of the response (messages.rs:168);
\* after the last one the outer loop goes on
DiscoveryNodeStep ==
    /\ discovery.pc = "nodes"
    /\ IF discovery.nodes = {}
       THEN /\ discovery' = [discovery EXCEPT !.pc = "next"]
            /\ UNCHANGED <<buckets, send_tx, waiters>>
       ELSE \E node \in discovery.nodes :
               DiscoveryPing(node, add_peer(buckets, local_node_id, node.address,
                                            node.node_id, FALSE, now))
    /\ UNCHANGED <<nodeVars, returned, value_store, send_thread, local_node_id, now, is_running, wire,
                   receive_rx, response_queue, dispatcher>>

DiscoveryNode == DiscoveryNodeStep /\ UNCHANGED lockVars

\* let _ = wait_for_response(...) has returned (messages.rs:183-187)
DiscoveryPinged ==
    /\ discovery.pc = "wait_ping"
    /\ waiters[Finder].pc = "done"
    /\ discovery' = [discovery EXCEPT !.pc = "nodes", !.aborted = @ \/ WaitAborted]
    /\ waiters' = [waiters EXCEPT ![Finder] = NotWaiting]
    /\ UNCHANGED <<nodeVars, returned, value_store, send_thread, tableVars, now, is_running, wire,
                   receive_rx, send_tx, response_queue, dispatcher, lockVars>>

(***************************************************************************)
(* peer_manager.rs: the routing table of the Node.  Its peers carry a      *)
(* plain last_seen and are always added active.                            *)
(***************************************************************************)
NodePeer(socket_addr, peer_node_id, t) ==
    [active |-> TRUE,
     address |-> socket_addr.ip,
     first_seen |-> t,
     last_seen |-> t,
     node_id |-> peer_node_id,
     port |-> socket_addr.port]

\* the peer is updated where it is, or pushed back (peer_manager.rs:64-80)
peer_manager_store(bk, bucket_index, peer_index, socket_addr, peer_node_id, t) ==
    [kind |-> "ok",
     buckets |-> [bk EXCEPT ![bucket_index] =
                    IF peer_index = None
                    THEN Append(@, NodePeer(socket_addr, peer_node_id, t))
                    ELSE [@ EXCEPT ![peer_index[1]].active = TRUE,
                                   ![peer_index[1]].last_seen = t]]]

\* a full bucket refuses the peer (peer_manager.rs:56-58)
peer_manager_bucket(bk, bucket_index, socket_addr, peer_node_id, t) ==
    IF BucketIsFull(bk[bucket_index])
    THEN [kind |-> "err", buckets |-> bk]
    ELSE peer_manager_store(bk, bucket_index, PositionOf(bk[bucket_index], peer_node_id),
                            socket_addr, peer_node_id, t)

peer_manager_distance(bk, distance, socket_addr, peer_node_id, t) ==
    IF distance.kind # "ok"
    THEN [kind |-> distance.kind, buckets |-> bk]
    ELSE peer_manager_bucket(bk, LeadingZerosU32(distance.value),
                             socket_addr, peer_node_id, t)

\* PeerManager::add_peer of peer_manager.rs
peer_manager_add_peer(bk, local, socket_addr, peer_node_id, t) ==
    peer_manager_distance(bk, calculate_xor_distance(local, peer_node_id),
                          socket_addr, peer_node_id, t)

\* get_closest_peers: the bucket of the target without the target; the
\* empty result stands for Err as well, which sends nothing either way
closest_in_bucket(bucket, target_id) ==
    SelectSeq(bucket, LAMBDA peer : peer.node_id # target_id)

get_closest_peers(bk, local, target_id) ==
    IF calculate_xor_distance(local, target_id).kind # "ok"
    THEN [kind |-> "err", peers |-> <<>>]
    ELSE [kind |-> "ok",
          peers |-> closest_in_bucket(
                        bk[LeadingZerosU32(calculate_xor_distance(local, target_id).value)],
                        target_id)]

\* get_peer: the peer with this id, if its bucket holds it
peer_in_bucket(bucket, peer_index) ==
    IF peer_index = None THEN None ELSE Some(bucket[peer_index[1]])

get_peer(bk, local, node_id) ==
    IF calculate_xor_distance(local, node_id).kind # "ok"
    THEN None
    ELSE peer_in_bucket(
             bk[LeadingZerosU32(calculate_xor_distance(local, node_id).value)],
             PositionOf(bk[LeadingZerosU32(calculate_xor_distance(local, node_id).value)],
                        node_id))

\* for_each: every peer, bucket by bucket
AllPeerPlaces(bk) ==
    UNION {{i} \X (1..Len(bk[i])) : i \in {j \in DOMAIN bk : bk[j] # <<>>}}

PlaceNumber(bk, place) ==
    1 + Cardinality({other \in AllPeerPlaces(bk) : Earlier(other, place)})

all_peers(bk) ==
    [n \in 1..Cardinality(AllPeerPlaces(bk)) |->
        bk[(CHOOSE place \in AllPeerPlaces(bk) : PlaceNumber(bk, place) = n)[1]]
          [(CHOOSE place \in AllPeerPlaces(bk) : PlaceNumber(bk, place) = n)[2]]]

(***************************************************************************)
(* node.rs and server.rs: the Node.  Addresses travel as "ip:port" text.   *)
(***************************************************************************)
FormatAddress(ip, port) == <<ip, ":", port>>

ParseAddress(text) ==
    IF Len(text) = 3 /\ text[2] = ":"
    THEN Some(SocketAddr(text[1], text[3]))
    ELSE None

\* Server::send: the packet is put on the outgoing channel
server_send(queue, socket_addr, packet) ==
    Append(queue, [dest |-> socket_addr, packet |-> packet])

\* validate_transaction_id: the entry is removed, then checked
Without(ids, transaction_id) ==
    [id \in DOMAIN ids \ {transaction_id} |-> ids[id]]

validate_transaction_id(ids, socket_addr, transaction_id) ==
    [ok |-> transaction_id \in DOMAIN ids /\ ids[transaction_id] = socket_addr,
     transaction_ids |-> Without(ids, transaction_id)]

\* the requests a list of addresses is sent, each under a new transaction id
\* (random_sha1_to_string; here the next unused number)
Registered(ids, registered, targets) ==
    [id \in DOMAIN ids \cup
            ((Len(registered) + 1)..(Len(registered) + Len(targets))) |->
        IF id \in DOMAIN ids THEN ids[id] ELSE targets[id - Len(registered)]]

Drawn(registered, targets, t) ==
    registered \o [k \in 1..Len(targets) |-> t]

Requested(queue, registered, local, targets, message) ==
    queue \o [k \in 1..Len(targets) |->
                 [dest |-> targets[k],
                  packet |-> Packet(local, Len(registered) + k, message)]]

SendRequests(targets, message) ==
    /\ transaction_ids' = Registered(transaction_ids, registered_at, targets)
    /\ registered_at' = Drawn(registered_at, targets, now)
    /\ send_tx' = Requested(send_tx, registered_at, local_node_id, targets, message)

\* the nodes of a FIND_NODE response: the sender itself if the list is empty
\* (node.rs:168-176)
NodesOrSender(socket_addr, packet) ==
    IF packet.message.arg = <<>>
    THEN <<FoundNode(FormatAddress(socket_addr.ip, socket_addr.port), packet.node_id)>>
    ELSE packet.message.arg

\* the packets the Node sends, and the transaction ids it draws, when it
\* handles a datagram: at most one PING for each node of a FIND_NODE
\* response, one response to a request
PingsAtMost(socket_addr, packet) ==
    IF packet # Garbage /\ packet.message.kind = "FindNode"
                       /\ packet.message.class = "Response"
    THEN Len(NodesOrSender(socket_addr, packet))
    ELSE 0

SendsAtMost(socket_addr, packet) ==
    IF packet # Garbage /\ packet.message.class = "Request"
    THEN 1
    ELSE PingsAtMost(socket_addr, packet)

\* the same for the datagrams still on the wire, none of which makes the
\* Node send more than one packet
WirePings == Cardinality({d \in wire : PingsAtMost(d.src, d.data) > 0})
WireSends == Cardinality({d \in wire : SendsAtMost(d.src, d.data) > 0})

\* the calls of the operator and the datagrams of the remote nodes are
\* limited so that the Node can handle every datagram it is sent
WithinBounds ==
    /\ Len(registered_at) + WirePings <= MaxTx
    /\ Len(send_tx) + WireSends <= MaxSend

\* send_ping (node.rs:98-119)
send_ping(socket_addr) ==
    /\ is_running
    /\ Len(registered_at) + WirePings < MaxTx
    /\ Len(send_tx) + WireSends < MaxSend
    /\ SendRequests(<<socket_addr>>, Ping)
    /\ UNCHANGED <<tableVars, now, is_running, wire, receive_rx, response_queue,
                   dispatcher, waiters, receive_thread, callVars>>

\* find_nearby_nodes (node.rs:34-77): FIND_NODE to every peer of the table
PeerAddresses(peers) ==
    [k \in 1..Len(peers) |-> SocketAddr(peers[k].address, peers[k].port)]

find_nearby_nodes(node_id) ==
    /\ is_running
    /\ Len(registered_at) + WirePings + Cardinality(AllPeerPlaces(buckets)) <= MaxTx
    /\ Len(send_tx) + WireSends + Cardinality(AllPeerPlaces(buckets)) <= MaxSend
    /\ SendRequests(PeerAddresses(all_peers(buckets)), FindNode(node_id))
    /\ UNCHANGED <<tableVars, now, is_running, wire, receive_rx, response_queue,
                   dispatcher, waiters, receive_thread, callVars>>

\* handle_ping (node.rs:220-238): PONG first, then add_peer
handle_ping(socket_addr, packet) ==
    /\ send_tx' = server_send(send_tx, socket_addr,
                              Packet(local_node_id, packet.transaction_id, Pong))
    /\ buckets' = peer_manager_add_peer(buckets, local_node_id, socket_addr,
                                        packet.node_id, now).buckets
    /\ UNCHANGED <<transaction_ids, registered_at>>

\* handle_pong (node.rs:240-249)
handle_pong_validated(socket_addr, packet, validated) ==
    /\ transaction_ids' = validated.transaction_ids
    /\ buckets' = IF validated.ok
                  THEN peer_manager_add_peer(buckets, local_node_id, socket_addr,
                                             packet.node_id, now).buckets
                  ELSE buckets
    /\ UNCHANGED <<registered_at, send_tx>>

handle_pong(socket_addr, packet) ==
    handle_pong_validated(socket_addr, packet,
        validate_transaction_id(transaction_ids, socket_addr, packet.transaction_id))

\* handle_find_node (node.rs:121-158): the answer goes to the sender
FoundNodes(peers) ==
    [k \in 1..Len(peers) |->
        FoundNode(FormatAddress(peers[k].address, peers[k].port), peers[k].node_id)]

handle_find_node_closest(socket_addr, packet, closest_peers) ==
    /\ send_tx' = IF closest_peers.kind # "ok"
                  THEN send_tx
                  ELSE server_send(send_tx, socket_addr,
                                   Packet(local_node_id, packet.transaction_id,
                                          FindNodeResponse(FoundNodes(closest_peers.peers))))
    /\ UNCHANGED <<buckets, transaction_ids, registered_at>>

handle_find_node(socket_addr, packet) ==
    handle_find_node_closest(socket_addr, packet,
        get_closest_peers(buckets, local_node_id, packet.message.arg))

\* handle_find_node_response (node.rs:160-218): the nodes that are pinged
\* are those with an address that parses, not stored as an active peer, and
\* not pinged earlier in the list
IsActivePeer(peer) == peer # None /\ peer[1].active

IsPinged(bk, local, nodes, k) ==
    /\ ParseAddress(nodes[k].address) # None
    /\ ~IsActivePeer(get_peer(bk, local, nodes[k].node_id))
    /\ \A j \in 1..(k - 1) :
          (/\ ParseAddress(nodes[j].address) # None
           /\ ~IsActivePeer(get_peer(bk, local, nodes[j].node_id)))
          => nodes[j].node_id # nodes[k].node_id

KeepPinged(bk, local, nodes) ==
    [k \in 1..Len(nodes) |-> IF IsPinged(bk, local, nodes, k) THEN nodes[k] ELSE None]

PingTargetsOf(kept) ==
    [k \in 1..Len(SelectSeq(kept, LAMBDA node : node # None)) |->
        ParseAddress(SelectSeq(kept, LAMBDA node : node # None)[k].address)[1]]

handle_find_node_response_pings(transactions, targets) ==
    /\ transaction_ids' = Registered(transactions, registered_at, targets)
    /\ registered_at' = Drawn(registered_at, targets, now)
    /\ send_tx' = Requested(send_tx, registered_at, local_node_id, targets, Ping)
    /\ UNCHANGED buckets

handle_find_node_response_validated(socket_addr, packet, validated) ==
    IF validated.ok
    THEN handle_find_node_response_pings(validated.transaction_ids,
             PingTargetsOf(KeepPinged(buckets, local_node_id,
                                      NodesOrSender(socket_addr, packet))))
    ELSE /\ transaction_ids' = validated.transaction_ids
         /\ UNCHANGED <<buckets, registered_at, send_tx>>

handle_find_node_response(socket_addr, packet) ==
    handle_find_node_response_validated(socket_addr, packet,
        validate_transaction_id(transaction_ids, socket_addr, packet.transaction_id))

\* handle_packet (node.rs:79-96)
handle_packet(socket_addr, packet) ==
    IF packet = Garbage
    THEN UNCHANGED <<buckets, transaction_ids, registered_at, send_tx>>
    ELSE IF packet.message = Ping THEN handle_ping(socket_addr, packet)
    ELSE IF packet.message = Pong THEN handle_pong(socket_addr, packet)
    ELSE IF packet.message.kind = "FindNode" /\ packet.message.class = "Request"
    THEN handle_find_node(socket_addr, packet)
    ELSE IF packet.message.kind = "FindNode" /\ packet.message.class = "Response"
    THEN handle_find_node_response(socket_addr, packet)
    ELSE UNCHANGED <<buckets, transaction_ids, registered_at, send_tx>>

\* the receive thread of Server::start (server.rs:115-159): a datagram is
\* read and handed to the callback; with nothing to read and the flag
\* cleared the thread ends
ServerReceive ==
    /\ receive_thread = "running"
    /\ \E d \in wire :
          /\ wire' = wire \ {d}
          /\ handle_packet(d.src, d.data)
    /\ UNCHANGED <<local_node_id, now, is_running, receive_rx, response_queue,
                   dispatcher, waiters, receive_thread, callVars>>

ServerReceiveExit ==
    /\ receive_thread = "running"
    /\ wire = {}
    /\ ~is_running
    /\ receive_thread' = "exited"
    /\ UNCHANGED <<tableVars, now, rpcVars, transaction_ids, registered_at, callVars>>

\* the send thread of Server::start (server.rs:161-181): the flag is read at
\* the head of the loop, and a cleared flag ends the thread
SendExit ==
    /\ send_thread = "running"
    /\ ~is_running
    /\ send_thread' = "exited"
    /\ UNCHANGED <<tableVars, now, rpcVars, nodeVars, returned, value_store, discovery, lockVars>>

\* send_to fails on the packet at the head of the queue: the result is
\* unwrapped (server.rs:180), and the panic ends the thread
TransmitFails ==
    /\ send_thread = "running"
    /\ is_running
    /\ send_tx # <<>>
    /\ send_tx' = Tail(send_tx)
    /\ send_thread' = "panicked"
    /\ UNCHANGED <<tableVars, now, is_running, wire, receive_rx, response_queue,
                   dispatcher, waiters, nodeVars, returned, value_store, discovery, lockVars>>

vars == <<local_node_id, buckets, now, is_running, wire, receive_rx, send_tx,
          response_queue, dispatcher, waiters, transaction_ids, registered_at,
          receive_thread, returned, value_store, discovery, send_thread, owner, step_of>>

RpcInit ==
    /\ is_running = TRUE
    /\ wire = {}
    /\ receive_rx = <<>>
    /\ send_tx = <<>>
    /\ response_queue = <<>>
    /\ dispatcher = "idle"
    /\ waiters = [w \in Threads |-> NotWaiting]
    /\ transaction_ids = <<>>
    /\ registered_at = <<>>
    /\ receive_thread = "running"
    /\ returned = None
    /\ value_store = <<>>
    /\ send_thread = "running"
    /\ discovery = NotStarted
    /\ owner = [m \in Mutexes |-> NoThread]
    /\ step_of = [t \in NodeThreads |-> Idle]

\* the routing table alone, under any sequence of add_peer calls
SpecTableInit == TableInit /\ now = 0 /\ RpcInit

SpecTableNext ==
    \/ LongTick
    \/ \E a \in Addrs, p \in PeerIds, act \in BOOLEAN : AddPeer(a, p, act)

SpecTable == SpecTableInit /\ [][SpecTableNext]_vars

\* the routing table under add_peer calls that name a peer from two addresses
SpecEndpointInit ==
    /\ local_node_id = IdZero
    /\ buckets = EmptyBuckets
    /\ now = 0
    /\ RpcInit

SpecEndpointNext ==
    \/ LongTick
    \/ \E a \in SourceAddrs, p \in PeerIds, act \in BOOLEAN : AddPeer(a, p, act)

SpecEndpoint == SpecEndpointInit /\ [][SpecEndpointNext]_vars

\* the routing table under calls of add_peer and of nearby_peers
SpecNearbyInit ==
    /\ local_node_id = IdZero
    /\ buckets \in LoadedTables(local_node_id)
    /\ now = 0
    /\ RpcInit

SpecNearbyNext ==
    \/ \E a \in Addrs, p \in NearbyPeerIds, act \in BOOLEAN : AddPeer(a, p, act)
    \/ \E target \in NearbyTargets : NearbyPeers(target)

SpecNearby == SpecNearbyInit /\ [][SpecNearbyNext]_vars

\* the dispatcher of main.rs with the transport queues, under requests of
\* remote nodes
Requests ==
    {Packet(id, "tx0", Ping) : id \in SenderIds}
    \cup {Packet(Id80, "tx0", FindNode(Id01)), Packet(Id40, "tx0", Store(Id01, <<1>>))}
Arrivals == Requests \cup {Garbage}

Init ==
    /\ local_node_id = IdZero
    /\ buckets \in LoadedTables(local_node_id)
    /\ now = 0
    /\ RpcInit

Next ==
    \/ LongTick
    \/ DispatcherWake
    \/ DispatcherSleep
    \/ DispatcherExit
    \/ Dispatch
    \/ \E src \in Addrs, data \in Arrivals : RemoteRequest(src, data)
    \/ Deliver
    \/ Transmit
    \/ Shutdown

Spec == Init /\ [][Next]_vars

\* the waiters of main.rs with the dispatcher and the transport queues
SpecWaitInit ==
    /\ local_node_id = IdZero
    /\ buckets = EmptyBuckets
    /\ now = 0
    /\ RpcInit

SpecWaitNext ==
    \/ LongTick
    \/ DispatcherWake
    \/ DispatcherSleep
    \/ DispatcherExit
    \/ Dispatch
    \/ Deliver
    \/ Transmit
    \/ Shutdown
    \/ \E w \in Waiters, a \in PingTargets : StartWait(w, a)
    \/ \E w \in Waiters : WaitCheck(w)
    \/ \E w \in Waiters : WaitPoll(w)
    \/ \E w \in Waiters : WaitSleep(w)

SpecWait == SpecWaitInit /\ [][SpecWaitNext]_vars

\* the discovery thread of main.rs with the dispatcher and the transport
\* queues; the table was saved with SavedPeers peers
SpecFindInit ==
    /\ local_node_id = IdZero
    /\ buckets = SavedBuckets(local_node_id, SavedPeers)
    /\ now = 0
    /\ RpcInit

SpecFindNext ==
    \/ LongTick
    \/ DispatcherWake
    \/ DispatcherSleep
    \/ DispatcherExit
    \/ Dispatch
    \/ Deliver
    \/ FinderTransmit
    \/ Shutdown
    \/ DiscoveryStart
    \/ DiscoveryRequest
    \/ DiscoveryResponse
    \/ DiscoveryNode
    \/ DiscoveryPinged
    \/ WaitCheck(Finder)
    \/ WaitPoll(Finder)
    \/ WaitSleep(Finder)

SpecFind == SpecFindInit /\ [][SpecFindNext]_vars

\* the dispatcher under requests a remote node sends from either of its
\* addresses
SpecReplyNext ==
    \/ DispatcherWake
    \/ DispatcherSleep
    \/ Dispatch
    \/ \E src \in SourceAddrs, data \in Requests : RemoteRequest(src, data)
    \/ Deliver
    \/ Transmit

SpecReply == Init /\ [][SpecReplyNext]_vars

(***************************************************************************)
(* The Mutex<PeerManager> and the Mutex<VecDeque<Packet>> main.rs shares   *)
(* between the dispatcher and the discovery thread, and the guards the     *)
(* discovery thread holds on them.                                         *)
(***************************************************************************)
MessageMutexes == {"peer_manager", "response_queue"}

\* lock().unwrap(): the thread goes on once the mutex is free
Locks(thread, m) ==
    /\ owner[m] = NoThread
    /\ owner' = [owner EXCEPT ![m] = thread]
    /\ UNCHANGED step_of

\* a variant in which the guard outlives its statement, used to validate
\* the properties
GuardKept(thread, m) ==
    /\ owner[m] = thread
    /\ UNCHANGED lockVars

\* the guard is dropped: a temporary at the end of its statement
\* (messages.rs:136, 169-173), `queue` by drop(queue) or by the return
\* (messages.rs:229-236)
GuardDropped(thread, m) ==
    /\ owner[m] = thread
    /\ owner' = [owner EXCEPT ![m] = NoThread]
    /\ UNCHANGED step_of

\* the statement the discovery thread has reached locks m
FinderNeeds(m) ==
    IF m = "peer_manager"
    THEN discovery.pc = "start" \/ (discovery.pc = "nodes" /\ discovery.nodes # {})
    ELSE m = "response_queue" /\ waiters[Finder].pc = "poll"

FinderLocks(m) ==
    /\ FinderNeeds(m)
    /\ Locks(Finder, m)
    /\ UNCHANGED <<nodeVars, returned, value_store, discovery, send_thread, tableVars, now,
                   rpcVars>>

\* peer_manager.lock().unwrap().nearby_peers(local_node_id)?  (messages.rs:136)
FinderNearbyPeers == DiscoveryStartStep /\ GuardDropped(Finder, "peer_manager")

\* peer_manager.lock().unwrap().add_peer(..)?, then the PING and the start
\* of its wait (messages.rs:168-187)
FinderAddPeer ==
    /\ discovery.nodes # {}
    /\ DiscoveryNodeStep
    /\ GuardDropped(Finder, "peer_manager")

\* the inner loop has no node left (messages.rs:168)
FinderNextPeer == discovery.nodes = {} /\ DiscoveryNode

\* the loop body of wait_for_response up to its sleep (messages.rs:225-236)
FinderPoll == WaitPollStep(Finder) /\ GuardDropped(Finder, "response_queue")

\* the mutexes the closure of the dispatcher locks for a datagram
\* (messages.rs:31-55, 97-101)
ClosureLocks(d) ==
    IF d.data = Garbage THEN {}
    ELSE IF d.data.message.class = "Response"
    THEN {"peer_manager", "response_queue"}
    ELSE {"peer_manager"}

LockedDispatch ==
    /\ receive_rx # <<>>
    /\ \A m \in ClosureLocks(Head(receive_rx)) : owner[m] = NoThread
    /\ Dispatch

SpecLocksNext ==
    \/ DispatcherWake
    \/ DispatcherSleep
    \/ LockedDispatch
    \/ Deliver
    \/ FinderTransmit
    \/ \E m \in MessageMutexes : FinderLocks(m)
    \/ FinderNearbyPeers
    \/ DiscoveryRequest
    \/ DiscoveryResponse
    \/ FinderAddPeer
    \/ FinderNextPeer
    \/ DiscoveryPinged
    \/ WaitCheck(Finder)
    \/ FinderPoll
    \/ WaitSleep(Finder)

SpecLocks == SpecFindInit /\ [][SpecLocksNext]_vars

(***************************************************************************)
(* node.rs and server.rs: the mutexes each function of the Node and of the *)
(* Server locks, in the order of the code.                                 *)
(***************************************************************************)
Lock(m) == <<"lock", m>>
Drop(m) == <<"drop", m>>

\* m.lock().unwrap() in a statement: the guard is dropped at its end
Temporary(m) == <<Lock(m), Drop(m)>>

Repeat(ops, n) == [k \in 1..(Len(ops) * n) |-> ops[((k - 1) % Len(ops)) + 1]]

\* send_ping (node.rs:98-119)
SendPingLocks ==
    Temporary("transaction_ids") \o Temporary("node_logger") \o Temporary("server")

\* find_nearby_nodes (node.rs:34-77): for_each runs its closure under the
\* guard of peer_manager
FindNearbyNodesLocks ==
    <<Lock("peer_manager")>>
        \o Repeat(Temporary("transaction_ids") \o Temporary("server"), LoopTurns)
        \o <<Drop("peer_manager")>>

\* on_receive (server.rs:66-74) takes &mut self: on the Server the Node
\* shares as Arc<Mutex<Server>> (node.rs:12) it is called under the guard
\* of server
OnReceiveLocks ==
    <<Lock("server")>> \o Temporary("receive_callbacks") \o <<Drop("server")>>

\* handle_ping (node.rs:220-238)
HandlePingLocks ==
    Temporary("node_logger") \o Temporary("server") \o Temporary("peer_manager")

\* handle_pong (node.rs:240-249), and the same when validate_transaction_id
\* fails and the receive thread logs the Err (server.rs:141-146)
HandlePongLocks == Temporary("transaction_ids") \o Temporary("peer_manager")
HandlePongRejectedLocks == Temporary("transaction_ids") \o Temporary("server_logger")

\* handle_find_node (node.rs:120-158)
HandleFindNodeLocks ==
    Temporary("peer_manager") \o Temporary("node_logger") \o Temporary("server")

\* handle_find_node_response (node.rs:160-218)
HandleFindNodeResponseLocks ==
    Temporary("transaction_ids")
        \o Repeat(Temporary("peer_manager") \o SendPingLocks, LoopTurns)

HandlePacketLocks ==
    {HandlePingLocks, HandlePongLocks, HandlePongRejectedLocks, HandleFindNodeLocks,
     HandleFindNodeResponseLocks}

\* the receive thread (server.rs:136-147): every callback runs under the
\* guard of receive_callbacks
ReceiveLocks(callback) ==
    <<Lock("receive_callbacks")>> \o callback \o <<Drop("receive_callbacks")>>

Programs(thread) ==
    IF thread = "receive" THEN {ReceiveLocks(callback) : callback \in HandlePacketLocks}
    ELSE IF thread = "finder" THEN {FindNearbyNodesLocks}
    ELSE IF thread = "pinger" THEN {SendPingLocks}
    ELSE {OnReceiveLocks}

NextOp(thread) == step_of[thread].ops[step_of[thread].next]
Running(thread) == step_of[thread].next <= Len(step_of[thread].ops)

ThreadCalls(thread) ==
    /\ step_of[thread] = Idle
    /\ \E ops \in Programs(thread) :
          step_of' = [step_of EXCEPT ![thread] = [ops |-> ops, next |-> 1]]
    /\ UNCHANGED <<nodeVars, returned, value_store, discovery, send_thread, tableVars, now,
                   rpcVars, owner>>

ThreadLocks(thread) ==
    /\ Running(thread)
    /\ NextOp(thread)[1] = "lock"
    /\ owner[NextOp(thread)[2]] = NoThread
    /\ owner' = [owner EXCEPT ![NextOp(thread)[2]] = thread]
    /\ step_of' = [step_of EXCEPT ![thread].next = @ + 1]
    /\ UNCHANGED <<nodeVars, returned, value_store, discovery, send_thread, tableVars, now,
                   rpcVars>>

ThreadDrops(thread) ==
    /\ Running(thread)
    /\ NextOp(thread)[1] = "drop"
    /\ owner' = [owner EXCEPT ![NextOp(thread)[2]] = NoThread]
    /\ step_of' = [step_of EXCEPT ![thread].next = @ + 1]
    /\ UNCHANGED <<nodeVars, returned, value_store, discovery, send_thread, tableVars, now,
                   rpcVars>>

ThreadReturns(thread) ==
    /\ step_of[thread] # Idle
    /\ ~Running(thread)
    /\ step_of' = [step_of EXCEPT ![thread] = Idle]
    /\ UNCHANGED <<nodeVars, returned, value_store, discovery, send_thread, tableVars, now,
                   rpcVars, owner>>

SpecNodeLocksNext ==
    \E thread \in NodeThreads :
        \/ ThreadCalls(thread)
        \/ ThreadLocks(thread)
        \/ ThreadDrops(thread)
        \/ ThreadReturns(thread)

SpecNodeLocksInit ==
    /\ local_node_id = IdZero
    /\ buckets = EmptyBuckets
    /\ now = 0
    /\ RpcInit

SpecNodeLocks == SpecNodeLocksInit /\ [][SpecNodeLocksNext]_vars

\* the discovery thread when the table was saved with a full bucket; the
\* thread is followed through its first FIND_NODE and the nodes it returns
SpecFindFullInit ==
    /\ local_node_id = IdZero
    /\ buckets = SavedBuckets(local_node_id, BUCKET_SIZE)
    /\ now = 0
    /\ RpcInit

\* the node behind the saved addresses now answers under the identifier
\* 0000...01, whose bucket has room
RestartedTransmit ==
    /\ send_tx # <<>>
    /\ TransmitReplyingFrom(Id01, ReplyWith(Head(send_tx).packet, FoundSets))

FirstDiscoveryRequest ==
    /\ discovery.drawn < MaxWaves \/ discovery.peers = {}
    /\ DiscoveryRequest

SpecFindFullNext ==
    \/ DispatcherWake
    \/ DispatcherSleep
    \/ Dispatch
    \/ Deliver
    \/ RestartedTransmit
    \/ DiscoveryStart
    \/ FirstDiscoveryRequest
    \/ DiscoveryResponse
    \/ DiscoveryNode
    \/ DiscoveryPinged
    \/ WaitCheck(Finder)
    \/ WaitPoll(Finder)
    \/ WaitSleep(Finder)

SpecFindFull == SpecFindFullInit /\ [][SpecFindFullNext]_vars

\* the dispatcher and the transport queues when each remote node numbers its
\* packets and sends the next one once the one before has been received:
\* the order of the numbers is the order the packets are received in
OrderIds == <<"tx1", "tx2", "tx3">>
OrderOf(transaction_id) ==
    CHOOSE i \in DOMAIN OrderIds : OrderIds[i] = transaction_id

OrderSources ==
    {<<SocketAddr("10.0.0.1", 16600), Id80>>, <<SocketAddr("10.0.0.2", 16600), Id40>>}
OrderMessages == {Ping, Pong}

\* the packets of the node at src that this node holds in one of its queues
HeldFrom(src) ==
    {receive_rx[i].data : i \in {j \in DOMAIN receive_rx : receive_rx[j].src = src}}
    \cup {send_tx[i].packet : i \in {j \in DOMAIN send_tx : send_tx[j].dest = src}}
    \cup {response_queue[i].packet :
             i \in {j \in DOMAIN response_queue : response_queue[j].src = src}}

OrderedRequest(src, data) ==
    /\ wire = {}
    /\ \A held \in HeldFrom(src) :
          OrderOf(held.transaction_id) < OrderOf(data.transaction_id)
    /\ RemoteRequestWithin(src, data, MaxQueued)

SpecOrderInit ==
    /\ local_node_id = IdZero
    /\ buckets = EmptyBuckets
    /\ now = 0
    /\ RpcInit

SpecOrderNext ==
    \/ DispatcherWake
    \/ DispatcherSleep
    \/ DispatchWithin(MaxQueued)
    \/ Deliver
    \/ Transmit
    \/ \E source \in OrderSources, i \in DOMAIN OrderIds, message \in OrderMessages :
          OrderedRequest(source[1], Packet(source[2], OrderIds[i], message))

SpecOrder == SpecOrderInit /\ [][SpecOrderNext]_vars

\* the functions of utilities.rs called on their own: ids that differ in
\* their first byte, in their last byte, or in both, and strings that are
\* not ids (short, long, upper case, not hexadecimal, signed)
UtilIds ==
    {IdZero, Id80, Id40, Id01, IdFF, Id0100, FillerId(1), FillerId(2),
     IdOf(<<>>, <<"8", "0">>), IdOf(<<>>, <<"0", "2">>), IdOf(<<"c", "0">>, <<>>)}
UtilStrings ==
    {IdFF, <<>>, SubSeq(IdFF, 1, 2 * ID_BYTES - 1), IdFF \o <<"0">>,
     IdOf(<<"A", "B">>, <<>>), IdOf(<<"z", "z">>, <<>>), IdOf(<<"+", "f">>, <<>>)}

CalculateXorDistance(node_id, target_id) ==
    /\ returned' = Some([call |-> "calculate_xor_distance", node_id |-> node_id,
                         target_id |-> target_id,
                         result |-> calculate_xor_distance(node_id, target_id)])
    /\ UNCHANGED <<tableVars, now, rpcVars, nodeVars, value_store, discovery, send_thread, lockVars>>

Sha1ToBytes(sha1) ==
    /\ returned' = Some([call |-> "sha1_to_bytes", sha1 |-> sha1,
                         result |-> sha1_to_bytes(sha1)])
    /\ UNCHANGED <<tableVars, now, rpcVars, nodeVars, value_store, discovery, send_thread, lockVars>>

\* parse_arguments called on a command line of up to two options, each
\* written as one argument --name=value or as the two arguments --name value
OptionNames == {<<"--bind-address">>, <<"--port">>, <<"--state-file">>, <<"--peer-file">>}
OptionValues ==
    {<<"255.255.255.255">>, <<"1234">>, <<"70000">>, <<"override.bin">>,
     <<" ", "1234">>, <<"1234", " ">>}
Options == OptionNames \X OptionValues
OptionLines ==
    {<<>>} \cup {<<o>> : o \in Options}
    \cup {<<first, o>> : first \in OptionNames \X {<<"1234">>}, o \in Options}

Joined(options) ==
    <<<<"binary_name">>>> \o [k \in DOMAIN options |-> options[k][1] \o <<"=">> \o options[k][2]]
Separate(options) ==
    <<<<"binary_name">>>> \o
        [k \in 1..(2 * Len(options)) |-> options[(k + 1) \div 2][IF k % 2 = 1 THEN 1 ELSE 2]]

ParseArguments(options, joined) ==
    /\ returned' = Some([call |-> "parse_arguments", options |-> options, joined |-> joined,
                         result |-> parse_arguments(IF joined THEN Joined(options)
                                                    ELSE Separate(options))])
    /\ UNCHANGED <<tableVars, now, rpcVars, nodeVars, value_store, discovery, send_thread, lockVars>>

SpecArgsInit ==
    /\ local_node_id = IdZero
    /\ buckets = EmptyBuckets
    /\ now = 0
    /\ RpcInit

SpecArgsNext == \E options \in OptionLines, joined \in BOOLEAN : ParseArguments(options, joined)

SpecArgs == SpecArgsInit /\ [][SpecArgsNext]_vars

SpecUtilInit ==
    /\ local_node_id = IdZero
    /\ buckets = EmptyBuckets
    /\ now = 0
    /\ RpcInit

SpecUtilNext ==
    \/ \E node_id \in UtilIds, target_id \in UtilIds :
          CalculateXorDistance(node_id, target_id)
    \/ \E sha1 \in UtilStrings : Sha1ToBytes(sha1)

SpecUtil == SpecUtilInit /\ [][SpecUtilNext]_vars

\* the Node of node.rs with its routing table and its server
NodeArrivals ==
    {Packet(Id80, 0, Ping), Packet(Id80, 0, FindNode(Id01)), Packet(Id80, 0, Pong),
     Garbage}

\* what the remote nodes send the Node, within what it can handle
NodeTransmit == Transmit /\ WithinBounds'
NodeRequest(src, data) == RemoteRequest(src, data) /\ WithinBounds'

SpecNodeInit ==
    /\ local_node_id = IdZero
    /\ buckets = EmptyBuckets
    /\ now = 0
    /\ RpcInit

SpecNodeNext ==
    \/ LongTick
    \/ \E a \in PingTargets : send_ping(a)
    \/ \E target \in FindTargets : find_nearby_nodes(target)
    \/ ServerReceive
    \/ ServerReceiveExit
    \/ NodeTransmit
    \/ TransmitFails
    \/ SendExit
    \/ \E src \in Addrs, data \in NodeArrivals : NodeRequest(src, data)
    \/ Shutdown

SpecNode == SpecNodeInit /\ [][SpecNodeNext]_vars

\* the threads of the node are scheduled and the clock advances
SpecNodeFair ==
    /\ SpecNode
    /\ WF_vars(ServerReceive)
    /\ WF_vars(ServerReceiveExit)
    /\ WF_vars(NodeTransmit)
    /\ WF_vars(SendExit)
    /\ WF_vars(LongTick)

(***************************************************************************)
(* Properties of the routing table.                                        *)
(***************************************************************************)
\* the index, counted from the most significant bit, of the first bit in
\* which two different ids differ
FirstDifferingBit(node_id_a, node_id_b) ==
    LET a == sha1_to_bytes(node_id_a).bytes
        b == sha1_to_bytes(node_id_b).bytes
        i == CHOOSE i \in 0..(ID_BYTES - 1) :
                /\ XorU8(a[i + 1], b[i + 1]) # 0
                /\ \A j \in 0..(i - 1) : XorU8(a[j + 1], b[j + 1]) = 0
    IN 8 * i + LeadingZerosU8(XorU8(a[i + 1], b[i + 1]))

\* C1: after any sequence of add_peer calls every bucket of the routing
\* table holds at most BUCKET_SIZE (20) peers.
C1_BucketBound ==
    \A i \in DOMAIN buckets : Len(buckets[i]) <= BUCKET_SIZE

\* a bucket that add_peer has filled to the limit
C1_Witness ==
    \E i \in DOMAIN buckets :
        /\ Len(buckets[i]) = BUCKET_SIZE
        /\ \E k \in 1..Len(buckets[i]) : buckets[i][k].node_id \in PeerIds

\* C2: add_peer stores a peer P in the bucket whose index is the index of
\* the first bit, from the most significant, in which P differs from the
\* local id (0..159): with an all-zero local id, 8000..0 goes to bucket 0,
\* 4000..0 to bucket 1 and 0000..01 to bucket 159.
C2_BucketIsFirstDifferingBit ==
    \A p \in PeerIds \ {local_node_id} :
        \A place \in Places(p) : place[1] = FirstDifferingBit(local_node_id, p)

\* C3: no node id appears twice in the routing table, in the same bucket or
\* in two buckets.
C3_NoDuplicateId ==
    \A i \in UsedBuckets : \A k \in 1..Len(buckets[i]) :
        Places(buckets[i][k].node_id) = {<<i, k>>}

\* a peer that add_peer was called for again after it was stored
C3_Witness ==
    \E i \in UsedBuckets : \E k \in 1..Len(buckets[i]) :
        /\ buckets[i][k].last_seen # None
        /\ buckets[i][k].last_seen[1] > buckets[i][k].first_seen

\* C4: the local node is never stored as a peer of its own routing table,
\* whatever add_peer is called with.
C4_LocalNeverStored ==
    Places(local_node_id) = {}

(***************************************************************************)
(* Properties of the dispatcher and of the response wait.                  *)
(***************************************************************************)
IsRequest(data, kinds) ==
    /\ data # Garbage
    /\ data.message.class = "Request"
    /\ data.message.kind \in kinds

\* the dispatcher handles the datagram at the head of receive_rx, a request
\* of one of these kinds
Dispatches(kinds) ==
    /\ dispatcher = "drain"
    /\ receive_rx # <<>>
    /\ receive_rx' = Tail(receive_rx)
    /\ IsRequest(Head(receive_rx).data, kinds)

\* exactly one packet is queued for sending: a response with the
\* transaction id of that request
QueuesResponse ==
    /\ Len(send_tx') = Len(send_tx) + 1
    /\ SubSeq(send_tx', 1, Len(send_tx)) = send_tx
    /\ send_tx'[Len(send_tx')].packet.message.class = "Response"
    /\ send_tx'[Len(send_tx')].packet.transaction_id =
          Head(receive_rx).data.transaction_id

\* C5: every well-formed PING or FIND_NODE request the dispatcher receives
\* gets exactly one response queued for sending, with the transaction id of
\* the request, whatever the state of the routing table.
C5_EveryRequestAnswered ==
    [][Dispatches({"Ping", "FindNode"}) => QueuesResponse]_vars

Returned(w) == waiters[w].pc = "done"
InProgress(w) == waiters[w].pc \in {"loop", "poll", "sleep"}

\* C6: whenever a wait succeeds, the packet it accepts carries the awaited
\* transaction id and came from the endpoint the request was sent to.
C6_AcceptedFromRequestedEndpoint ==
    \A w \in Waiters :
        (Returned(w) /\ waiters[w].result[1].kind = "Ok") =>
            /\ waiters[w].result[1].val.packet.transaction_id = TransactionId(w)
            /\ waiters[w].result[1].val.src = waiters[w].dest[1]

\* C7, as stated: once the running flag is cleared, every wait in progress
\* returns Canceled ("Aborting wait"), not Timeout or a response.
C7_ReturnsCanceledOnceCleared ==
    [][\A w \in Waiters :
           (~is_running /\ InProgress(w) /\ Returned(w)') =>
               waiters'[w].result = Some(Aborted)]_vars

\* C7, as the code has it: once the running flag is cleared, a wait that is
\* at its loop condition returns Canceled there, without polling the queue
\* again; the iteration it was in when the flag was cleared is finished
\* first and may still return the response or Timeout.
C7_CanceledAtLoopCondition ==
    [][\A w \in Waiters :
           (~is_running /\ waiters[w].pc = "loop" /\ waiters'[w].pc # "loop") =>
               (Returned(w)' /\ waiters'[w].result = Some(Aborted))]_vars

\* a wait that was canceled
C7_Witness ==
    \E w \in Waiters : Returned(w) /\ waiters[w].result = Some(Aborted)

\* C9: if a response with the transaction id of a wait in progress is put
\* on the response queue before the deadline, and the running flag stays
\* set, that wait returns this response and not Timeout.
C9_OfferedResponseReturned ==
    \A w \in Waiters :
        (is_running /\ Returned(w) /\ waiters[w].offered) =>
            waiters[w].result[1].kind = "Ok"

\* a wait in progress is for this transaction id
Awaited(transaction_id) ==
    \E w \in DOMAIN waiters : InProgress(w) /\ TransactionId(w) = transaction_id

\* the node is running and its dispatcher handles the datagram at the head
\* of receive_rx, a response that no wait in progress is for
DispatchesUnmatched ==
    /\ is_running
    /\ dispatcher = "drain"
    /\ receive_rx # <<>>
    /\ receive_rx' = Tail(receive_rx)
    /\ Head(receive_rx).data # Garbage
    /\ Head(receive_rx).data.message.class = "Response"
    /\ ~Awaited(Head(receive_rx).data.transaction_id)

\* C11: a response whose transaction id matches no outstanding request (a
\* late response, a forged id) is discarded: it is not put on the response
\* queue, which so does not grow with unmatched responses.
C11_UnmatchedResponseDiscarded ==
    [][DispatchesUnmatched => response_queue' = response_queue]_vars

\* the routing table has a place for this node: it is stored already, or
\* its bucket is not full
HasPlaceFor(node_id) ==
    \/ Places(node_id) # {}
    \/ Len(buckets[BucketIndexOf(local_node_id, node_id)]) < BUCKET_SIZE

\* a routing table holds this node with active = true
HoldsActive(bk, node_id) ==
    \E i \in DOMAIN bk : \E k \in 1..Len(bk[i]) :
        bk[i][k].node_id = node_id /\ bk[i][k].active

\* the dispatcher handles the datagram at the head of receive_rx: a PING or a
\* PONG of a node the routing table has a place for
DispatchesPingOrPong ==
    /\ dispatcher = "drain"
    /\ receive_rx # <<>>
    /\ receive_rx' = Tail(receive_rx)
    /\ Head(receive_rx).data # Garbage
    /\ Head(receive_rx).data.message \in {Ping, Pong}
    /\ HasPlaceFor(Head(receive_rx).data.node_id)

\* the PONG is put on the response queue, where the wait finds it
QueuesForWaiter ==
    /\ Len(response_queue') = Len(response_queue) + 1
    /\ response_queue'[Len(response_queue')].packet = Head(receive_rx).data

\* C12: when a node pings another and the transport delivers the PING and
\* the PONG, the pinged node holds the sender with active = true and answers
\* with the PONG, and the pinging node holds the pinged one with
\* active = true and hands the PONG to the wait.
C12_PingExchangeCompletes ==
    [][DispatchesPingOrPong =>
          /\ HoldsActive(buckets', Head(receive_rx).data.node_id)
          /\ IF Head(receive_rx).data.message = Ping
             THEN QueuesResponse
             ELSE QueuesForWaiter]_vars

\* the node ids in the FIND_NODE response queued last
RespondedNodeIds(queue) == {node.node_id : node \in queue[Len(queue)].packet.message.arg}

\* C17: the node list in the response to FIND_NODE(target) is
\* nearby_peers(target) with the requester excluded: the node id of the
\* requesting peer is not in the response sent to it.
C17_RequesterNotInResponse ==
    [][(Dispatches({"FindNode"}) /\ QueuesResponse) =>
          Head(receive_rx).data.node_id \notin RespondedNodeIds(send_tx')]_vars

\* the dispatcher handles a STORE request of a sender the routing table has
\* a place for
DispatchesStore ==
    /\ Dispatches({"Store"})
    /\ HasPlaceFor(Head(receive_rx).data.node_id)

\* the value store holds the bytes under the key
Holds(values, pair) == pair[1] \in DOMAIN values /\ values[pair[1]] = pair[2]

\* C18: a node that receives STORE(key, bytes) writes the bytes under the
\* key in its local value store and sends one STORE_OK with the transaction
\* id of the request.
C18_StoreWritesAndAnswers ==
    [][DispatchesStore =>
          /\ Holds(value_store', Head(receive_rx).data.message.arg)
          /\ QueuesResponse]_vars

\* the discovery thread sends the PING for a node of a FIND_NODE response
DiscoveryPings == discovery.pc = "nodes" /\ discovery'.pc = "wait_ping"

\* C19: during discovery a PING is sent for a returned FoundNode only if its
\* node id is not already in the routing table and is not the local id.
C19_PingOnlyForUnknownNode ==
    [][DiscoveryPings =>
          /\ Places(discovery'.node[1].node_id) = {}
          /\ discovery'.node[1].node_id # local_node_id]_vars

\* C21: once the running flag is cleared the discovery loop ends at its next
\* yield point: after one of its waits has returned because of the
\* cancellation it sends no further FIND_NODE or PING packet.
C21_NoPacketAfterAbortedWait ==
    [][discovery.aborted => discovery'.drawn = discovery.drawn]_vars

\* the discovery thread ends with Ok(()) while the node is running
DiscoveryEnds ==
    /\ is_running
    /\ discovery.pc # "done"
    /\ discovery'.pc = "done"
    /\ discovery'.result[1].kind = "Ok"

\* C20: discovery runs in waves: after a wave that added a new peer it runs
\* another wave of FIND_NODE(local_id), and it ends only after a wave that
\* produced no new peer or when the running flag is cleared.
C20_EndsAfterWaveWithoutNewPeer ==
    [][DiscoveryEnds => discovery.added = 0]_vars

\* the last call was add_peer and it returned Err("Bucket is full")
ReturnedBucketFull ==
    /\ returned # None
    /\ "node_id" \in DOMAIN returned[1]
    /\ returned[1].kind = "err"
    /\ returned[1].err = "Bucket is full"

\* C16: add_peer returns 'Bucket is full' only when the peer is absent from
\* its bucket and that bucket already holds 20 peers; for a peer that is
\* already present in a full bucket add_peer succeeds.
C16_BucketFullOnlyForAbsentPeer ==
    ReturnedBucketFull =>
        /\ Places(returned[1].node_id) = {}
        /\ Len(buckets[BucketIndexOf(local_node_id, returned[1].node_id)]) = BUCKET_SIZE

(***************************************************************************)
(* Properties of nearby_peers.                                             *)
(***************************************************************************)
NearbyReturned == returned # None /\ "peers" \in DOMAIN returned[1]

StoredPeers == {buckets[i][k] : <<i, k>> \in UNION {{i} \X (1..Len(buckets[i])) : i \in UsedBuckets}}

\* the distance of the program between two ids ...
DistanceBetween(node_id, target_node_id) ==
    calculate_xor_distance(node_id, target_node_id).value

\* ... and the bitwise XOR of the two ids, read as a big-endian number
XorBytes(node_id, target_node_id) ==
    [k \in 1..ID_BYTES |->
        XorU8(sha1_to_bytes(node_id).bytes[k], sha1_to_bytes(target_node_id).bytes[k])]

NotAbove(x, y) ==
    \/ x = y
    \/ \E k \in 1..ID_BYTES : x[k] < y[k] /\ \A j \in 1..(k - 1) : x[j] = y[j]

FirstIsNearest(result) ==
    \/ \A peer \in result.peers :
          DistanceBetween(result.first[1].node_id, result.target)
              <= DistanceBetween(peer.node_id, result.target)
    \/ \A peer \in result.peers :
          NotAbove(XorBytes(result.first[1].node_id, result.target),
                   XorBytes(peer.node_id, result.target))

\* C13: nearby_peers returns the peers in non-decreasing XOR distance to the
\* target, so the first peer of the returned Vec is at least as near to the
\* target as every other returned peer, by the distance of the program or by
\* the bitwise XOR of the ids.
C13_NearestFirst ==
    (NearbyReturned /\ returned[1].first # None) => FirstIsNearest(returned[1])

\* C14: for every table and target, nearby_peers returns at most 20 peers,
\* pairwise distinct by node_id, none with the target's id, each one stored
\* in the table.
C14_ResultBoundedDistinctStored ==
    NearbyReturned =>
        /\ Cardinality(returned[1].peers) <= FIND_PEER_COUNT
        /\ \A p, q \in returned[1].peers : p.node_id = q.node_id => p = q
        /\ \A p \in returned[1].peers : p.node_id # returned[1].target
        /\ returned[1].peers \subseteq StoredPeers

\* the table holds the target and more than 20 other peers, and 20 are returned
C14_Witness ==
    /\ NearbyReturned
    /\ Cardinality(returned[1].peers) = FIND_PEER_COUNT
    /\ Places(returned[1].target) # {}
    /\ Cardinality(StoredPeers) > FIND_PEER_COUNT + 1

SeenPeers == {peer \in StoredPeers : peer.last_seen # None}

\* C15: nearby_peers takes the seen peers first and adds unseen ones only
\* when fewer than 20 seen peers exist: a result that contains an unseen peer
\* contains every seen peer of the table other than the target.
C15_UnseenOnlyAfterEverySeen ==
    (NearbyReturned /\ \E peer \in returned[1].peers : peer.last_seen = None) =>
        \A peer \in SeenPeers :
            peer.node_id # returned[1].target => peer \in returned[1].peers

(***************************************************************************)
(* Properties of the transaction map of the Node.                          *)
(***************************************************************************)
\* a transaction registered more than TIMEOUT_SECS ago
Expired(id) ==
    /\ id \in DOMAIN transaction_ids
    /\ now > registered_at[id] + TIMEOUT_SECS

\* C8: while the running flag stays set, a request that is never answered
\* times out once its 5 seconds have passed, and after that the node keeps
\* no record of its transaction id in the pending-transaction state.
C8_NoRecordAfterTimeout ==
    \A id \in 1..MaxTx :
        Expired(id) ~> (id \notin DOMAIN transaction_ids \/ ~is_running)

\* C10: every registered transaction is eventually removed from the
\* pending-transaction map, by its response, by its timeout or by shutdown:
\* one whose timeout has passed, or whose node was shut down, does not stay
\* registered forever.
C10_EveryTransactionRemoved ==
    \A id \in 1..MaxTx :
        (id \in DOMAIN transaction_ids /\ (Expired(id) \/ ~is_running))
            ~> (id \notin DOMAIN transaction_ids)

\* C23: a failed datagram write does not end the transport: after send_to
\* has failed the send thread is still running, and it goes on to send the
\* packets queued behind the one that failed.
C23_SendThreadSurvivesFailedWrite ==
    send_thread # "panicked"

\* C24: once the running flag is cleared both threads of the transport, the
\* receive thread and the send thread, end, whatever datagrams keep arriving
\* and whatever is still queued for sending.
C24_BothThreadsEnd ==
    (~is_running) ~> (receive_thread = "exited" /\ send_thread # "running")

\* the numbers of the packets a queue holds for the node at src, in queue order
OrdersIn(queue, src) ==
    [i \in DOMAIN queue |->
        IF "dest" \in DOMAIN queue[i]
        THEN IF queue[i].dest = src THEN OrderOf(queue[i].packet.transaction_id) ELSE 0
        ELSE IF queue[i].src = src THEN OrderOf(queue[i].packet.transaction_id) ELSE 0]

Ascending(orders) ==
    \A i, j \in DOMAIN orders :
        (i < j /\ orders[i] # 0 /\ orders[j] # 0) => orders[i] < orders[j]

\* C22: the packets of one source are dispatched in the order they were
\* received: what the dispatch of an earlier packet queued (its response in
\* send_tx, or the packet itself in response_queue) lies ahead of what a
\* later one queued, and is queued before any later packet is dispatched.
C22_DispatchedInReceiveOrder ==
    \A source \in OrderSources :
        /\ Ascending(OrdersIn(send_tx, source[1]))
        /\ Ascending(OrdersIn(response_queue, source[1]))
        /\ \A i \in DOMAIN receive_rx :
              receive_rx[i].src = source[1] =>
                 \A held \in HeldFrom(source[1]) \ {receive_rx[j].data : j \in i..Len(receive_rx)} :
                     OrderOf(held.transaction_id) < OrderOf(receive_rx[i].data.transaction_id)

\* two requests of one source have been dispatched, both responses are queued
\* for sending, and a third packet of the source has been received
C22_Witness ==
    /\ Len(send_tx) = 2
    /\ send_tx[1].dest = send_tx[2].dest
    /\ send_tx[1].packet.transaction_id = "tx1"
    /\ send_tx[2].packet.transaction_id = "tx2"
    /\ receive_rx # <<>>
    /\ receive_rx[1].src = send_tx[1].dest

\* calculate_xor_distance has returned Ok for two ids
DistanceReturned ==
    /\ returned # None
    /\ returned[1].call = "calculate_xor_distance"
    /\ returned[1].result.kind = "ok"

\* C25: for valid ids a and b, calculate_xor_distance(a, b) equals
\* calculate_xor_distance(b, a), and calculate_xor_distance(a, a) is 0.
C25_DistanceSymmetricAndZeroOnSelf ==
    DistanceReturned =>
        /\ returned[1].result.value =
              calculate_xor_distance(returned[1].target_id, returned[1].node_id).value
        /\ returned[1].node_id = returned[1].target_id => returned[1].result.value = 0

\* the distance of two different ids has been returned, and it is not 0
C25_Witness ==
    /\ DistanceReturned
    /\ returned[1].node_id # returned[1].target_id
    /\ returned[1].result.value > 0

\* C26: calculate_xor_distance(a, b) is the bitwise XOR of the ids read as an
\* unsigned integer: it is 0 only when a = b, and for a fixed a different ids
\* b give different distances.
C26_DistanceZeroOnlyOnSelfAndInjective ==
    DistanceReturned =>
        /\ returned[1].result.value = 0 => returned[1].node_id = returned[1].target_id
        /\ \A other \in UtilIds \ {returned[1].target_id} :
              calculate_xor_distance(returned[1].node_id, other).value
                  # returned[1].result.value

\* a string of 40 lower-case hexadecimal characters
LowerHex40(sha1) ==
    /\ Len(sha1) = 2 * ID_BYTES
    /\ \A i \in DOMAIN sha1 : \E k \in DOMAIN HexLower : HexLower[k] = sha1[i]

\* C27: sha1_to_bytes accepts exactly the strings of 40 lower-case hexadecimal
\* characters; every other string is answered with an error that is
\* returned: the call never panics and never accepts the string as an id.
C27_AcceptsExactlyLowerHex40 ==
    (returned # None /\ returned[1].call = "sha1_to_bytes") =>
        /\ returned[1].result.kind # "panic"
        /\ returned[1].result.kind = "ok" <=> LowerHex40(returned[1].sha1)

\* C28: every packet handed to the transport encodes to at most 1024 bytes,
\* the size of the receive buffer, whatever its message is: also a FIND_NODE
\* response that lists 20 nodes.
C28_EveryPacketFitsReceiveBuffer ==
    \A i \in DOMAIN send_tx : EncodedSize(send_tx[i].packet) <= BUFFER_SIZE

\* C29: parse_arguments gives the same result for an option written as
\* --name=value and written as --name value, for --bind-address, --port,
\* --state-file and --peer-file; without options it yields the bind address
\* 0.0.0.0, the port 16600, the state file state.bin and the peer file
\* peers.bin.
C29_JoinedAndSeparateAgree ==
    (returned # None /\ returned[1].call = "parse_arguments") =>
        /\ returned[1].joined =>
              returned[1].result = parse_arguments(Separate(returned[1].options))
        /\ returned[1].options = <<>> =>
              /\ returned[1].result.kind = "ok"
              /\ returned[1].result.arguments.bind_address = <<"0.0.0.0">>
              /\ returned[1].result.arguments.port = 16600
              /\ returned[1].result.arguments.state_file = <<"state.bin">>
              /\ returned[1].result.arguments.peer_file = <<"peers.bin">>

\* C30: after any sequence of add_peer calls every bucket is ordered from
\* the least recently seen peer, at its head, to the most recently seen one,
\* at its tail: add_peer on a peer that is present moves its entry to the
\* tail.
C30_BucketsOrderedBySeen ==
    /\ \A i \in UsedBuckets : \A j, k \in 1..Len(buckets[i]) :
          (j < k /\ buckets[i][j].last_seen # None /\ buckets[i][k].last_seen # None)
              => buckets[i][j].last_seen[1] <= buckets[i][k].last_seen[1]
    /\ (returned # None /\ "node_id" \in DOMAIN returned[1] /\ returned[1].kind = "ok")
          => \A place \in Places(returned[1].node_id) : place[2] = Len(buckets[place[1]])

\* the entries of a table, and those it holds for a node id
EntriesOf(bk) ==
    UNION {{bk[i][k] : k \in 1..Len(bk[i])} : i \in {j \in DOMAIN bk : bk[j] # <<>>}}
EntriesIn(bk, node_id) == {entry \in EntriesOf(bk) : entry.node_id = node_id}

\* the endpoints a table holds for a node id
EndpointsIn(bk, node_id) ==
    {SocketAddr(entry.address, entry.port) : entry \in EntriesIn(bk, node_id)}

\* C31: add_peer on a peer that is present, called with a socket address
\* whose IP differs from the stored one, replaces the stored endpoint with
\* the new one; called with the same IP it keeps the stored endpoint.
C31_EndpointReplacedOnNewIp ==
    [][\A socket_addr \in SourceAddrs, peer_node_id \in PeerIds, active \in BOOLEAN :
          (/\ Places(peer_node_id) # {}
           /\ AddPeer(socket_addr, peer_node_id, active)
           /\ returned'[1].kind = "ok")
          => \A stored \in EndpointsIn(buckets, peer_node_id) :
                EndpointsIn(buckets', peer_node_id) =
                    IF stored.ip # socket_addr.ip THEN {socket_addr} ELSE {stored}]_vars

\* C32: within a session the active flag of a peer only goes from false to
\* true: add_peer called with active = false on a peer whose flag is true
\* leaves the flag true and leaves last_seen as it is.
C32_ActiveFlagNeverCleared ==
    [][\A socket_addr \in Addrs, peer_node_id \in PeerIds :
          (/\ \E entry \in EntriesIn(buckets, peer_node_id) : entry.active
           /\ AddPeer(socket_addr, peer_node_id, FALSE)
           /\ returned'[1].kind = "ok")
          => \A entry \in EntriesIn(buckets, peer_node_id) :
                \E kept \in EntriesIn(buckets', peer_node_id) :
                    kept.active /\ kept.last_seen = entry.last_seen]_vars

\* C33: with a clock that never goes backwards, every peer of the routing
\* table keeps the first_seen it got when it was inserted, and its
\* last_seen, when set, is not before its first_seen.
C33_FirstSeenKeptAndNotAfterLastSeen ==
    /\ [](\A i \in UsedBuckets : \A k \in 1..Len(buckets[i]) :
             buckets[i][k].last_seen # None
                 => buckets[i][k].last_seen[1] >= buckets[i][k].first_seen)
    /\ [][\A entry \in EntriesOf(buckets), kept \in EntriesOf(buckets') :
             kept.node_id = entry.node_id => kept.first_seen = entry.first_seen]_vars

\* add_peer has just returned Ok for an active peer that was inserted before
\* the clock advanced
C33_Witness ==
    /\ returned # None
    /\ "node_id" \in DOMAIN returned[1]
    /\ returned[1].kind = "ok"
    /\ \E entry \in EntriesIn(buckets, returned[1].node_id) :
          /\ entry.active
          /\ entry.last_seen # None
          /\ entry.first_seen < entry.last_seen[1]
          /\ entry.last_seen[1] = now

\* C34: nearby_peers stops short of 20 peers only when every bucket is
\* exhausted: it returns min(20, n) peers, n being the number of peers of
\* the whole table whose node_id is not the target's.
C34_StopsShortOnlyWhenExhausted ==
    NearbyReturned =>
        Cardinality(returned[1].peers) =
            Min(FIND_PEER_COUNT,
                Cardinality({peer \in StoredPeers : peer.node_id # returned[1].target}))

\* the dispatcher handles the datagram at the head of receive_rx, a PING, a
\* FIND_NODE or a response, and add_peer refuses its sender with 'Bucket is
\* full'
DispatchesUnrecorded ==
    /\ dispatcher = "drain"
    /\ receive_rx # <<>>
    /\ receive_rx' = Tail(receive_rx)
    /\ Head(receive_rx).data # Garbage
    /\ Head(receive_rx).data.message.kind \in {"Ping", "Pong", "FindNode"}
    /\ add_peer(buckets, local_node_id, Head(receive_rx).src,
                Head(receive_rx).data.node_id, TRUE, now).err = "Bucket is full"

\* C35: when recording the sender of an inbound packet fails with 'Bucket
\* is full' only the peer is ignored: a request in the packet still gets its
\* response, and a response in the packet still reaches the response queue
\* where its waiter finds it.
C35_PacketHandledWhenBucketFull ==
    [][DispatchesUnrecorded =>
          IF Head(receive_rx).data.message.class = "Request"
          THEN QueuesResponse
          ELSE QueuesForWaiter]_vars

\* C37: during discovery a returned FoundNode that cannot be inserted
\* because its bucket is full is skipped: the loop goes on with the other
\* FoundNodes of the response and with the other peers, and find_nearby_peers
\* does not end with that error.
C37_FullBucketDoesNotEndDiscovery ==
    ~(/\ discovery.pc = "done"
      /\ discovery.result[1].kind = "Err"
      /\ discovery.result[1].err = "Bucket is full")

\* C38: every response the request handler queues is addressed to the
\* endpoint the datagram of the request came from, also when the sender is
\* already in the routing table under another endpoint.
C38_ResponseGoesToDatagramSource ==
    [][(Dispatches({"Ping", "FindNode"}) /\ Dispatch /\ Len(send_tx') = Len(send_tx) + 1)
         => send_tx'[Len(send_tx')].dest = Head(receive_rx).src]_vars

\* the receive thread hands the callback datagram d: a response that bears
\* a registered transaction id and came from another endpoint than the one
\* the request was sent to
ReceivesFromUnexpected(d) ==
    /\ ServerReceive
    /\ wire' = wire \ {d}
    /\ d.data # Garbage
    /\ d.data.message.class = "Response"
    /\ d.data.transaction_id \in DOMAIN transaction_ids
    /\ transaction_ids[d.data.transaction_id] # d.src

\* C39: a response with a registered transaction id that comes from another
\* endpoint than the expected one is rejected without consuming the
\* transaction: the id stays registered for the expected endpoint.
C39_RejectedResponseKeepsTransaction ==
    [][\A d \in wire :
          ReceivesFromUnexpected(d)
          => /\ d.data.transaction_id \in DOMAIN transaction_ids'
             /\ transaction_ids'[d.data.transaction_id] =
                   transaction_ids[d.data.transaction_id]]_vars

\* the thread is at a lock() of a mutex another thread owns
Blocked(thread) ==
    /\ Running(thread)
    /\ NextOp(thread)[1] = "lock"
    /\ owner[NextOp(thread)[2]] # NoThread

\* some threads wait for mutexes that only threads among them can release
CyclicWait ==
    \E waiting \in SUBSET NodeThreads \ {{}} :
        \A thread \in waiting :
            Blocked(thread) /\ owner[NextOp(thread)[2]] \in waiting

\* C40: the mutexes of the Node and of the Server are locked without a
\* cyclic wait: the receive thread running handle_packet in the callback
\* list and the threads that call find_nearby_nodes, send_ping and
\* on_receive never reach a deadlock.
C40_NoCyclicWait == ~CyclicWait

\* C36: while the discovery thread is in the sleep of wait_for_response it
\* holds neither the lock of the routing table nor the lock of the response
\* queue: both are free for the dispatcher.
C36_NoLockHeldWhileWaiting ==
    waiters[Finder].pc = "sleep" => \A m \in MessageMutexes : owner[m] = NoThread

\* the discovery thread sleeps in the wait for a FIND_NODE response while
\* the dispatcher is about to handle a response
C36_Witness ==
    /\ waiters[Finder].pc = "sleep"
    /\ discovery.pc = "wait_find"
    /\ dispatcher = "drain"
    /\ receive_rx # <<>>
    /\ ClosureLocks(Head(receive_rx)) = MessageMutexes

====
